---------------------------- MODULE Spec2Model ----------------------------
(***************************************************************************)
(* A model of the fluxins expression library: the operator configuration   *)
(* (config), the tokenizer, the recursive-descent parser, the tree         *)
(* evaluator and the expression facade.                                    *)
(*                                                                         *)
(* Conventions.  C++ vectors are sequences; C++ indices are 0-based and    *)
(* are kept 0-based in the model (At(s, i) reads s[i]).  A std::string     *)
(* (a code text, a token value, an operator symbol, a name) is a sequence  *)
(* of one-character strings, so that the tokenizer can walk a text and     *)
(* std::stof can read digits.  A float is an integer: the codes the model  *)
(* evaluates only use operators that are exact on small integers.  An      *)
(* operation that can throw is an operator that returns a record with an   *)
(* err field ("none" when it returns normally).                            *)
(***************************************************************************)
EXTENDS Integers, Sequences, FiniteSets, TLC

VARIABLES
    unary_prefix_operators,  \* config::unary_prefix_operators (symbols)
    unary_suffix_operators,  \* config::unary_suffix_operators (symbols)
    binary_operators,        \* config::binary_operators ([symbol, assoc])
    binary_op_precedence,    \* config::binary_op_precedence (rows of indices)
    expression,              \* the expression: [expr, tokens, ast, value, ctx]
    effects,                 \* invocations of callables by the last evaluate
    contexts,                \* the context objects the host holds, by reference
    outcome,                 \* what the last operation did: [op, err, ...]
    steps                    \* number of config operations performed

cfg_vars == <<unary_prefix_operators, unary_suffix_operators,
              binary_operators, binary_op_precedence>>

vars == <<unary_prefix_operators, unary_suffix_operators,
          binary_operators, binary_op_precedence,
          expression, effects, contexts, outcome, steps>>

---------------------------------------------------------------------------
(* Bounds of the model. *)

\* Longest sequence of config operations explored from the default Config.
MaxConfigOps == 3

\* (std::size_t) -1, the "not found" index.  TLC integers are 32 bits wide,
\* so the model uses the largest value TLC holds; every comparison the code
\* makes with it (== npos, >= size) has the same result.
NPos == 2147483647

---------------------------------------------------------------------------
(* Sequence helpers (std::vector). *)

At(s, i) == s[i + 1]

Indices(s) == 0 .. (Len(s) - 1)

\* vector::erase(begin() + i)
EraseAt(s, i) == [k \in 1 .. (Len(s) - 1) |-> IF k <= i THEN s[k] ELSE s[k + 1]]

\* vector::insert(begin() + i, x)
InsertAt(s, i, x) ==
    [k \in 1 .. (Len(s) + 1) |->
        IF k <= i THEN s[k] ELSE IF k = i + 1 THEN x ELSE s[k - 1]]

\* s with its element i replaced by x
SetAt(s, i, x) == [s EXCEPT ![i + 1] = x]

\* std::find / std::find_if: the first of the indices of s in hits (the
\* indices whose element satisfies the predicate), or NPos
FirstIndex(s, hits) ==
    IF hits # {}
    THEN CHOOSE i \in hits : \A j \in hits : i <= j
    ELSE NPos

Contains(s, x) == \E i \in Indices(s) : At(s, i) = x

---------------------------------------------------------------------------
(* config *)

Config(pre, suf, bin, rows) ==
    [unary_prefix_operators |-> pre,
     unary_suffix_operators |-> suf,
     binary_operators       |-> bin,
     binary_op_precedence   |-> rows]

Ok(cfg) == [cfg |-> cfg, err |-> "none"]
Throw(cfg, e) == [cfg |-> cfg, err |-> e]

find_unary_prefix_op(cfg, symbol) ==
    FirstIndex(cfg.unary_prefix_operators,
               {i \in Indices(cfg.unary_prefix_operators) :
                    At(cfg.unary_prefix_operators, i) = symbol})

unary_prefix_op_exists(cfg, symbol) == find_unary_prefix_op(cfg, symbol) # NPos

find_unary_suffix_op(cfg, symbol) ==
    FirstIndex(cfg.unary_suffix_operators,
               {i \in Indices(cfg.unary_suffix_operators) :
                    At(cfg.unary_suffix_operators, i) = symbol})

unary_suffix_op_exists(cfg, symbol) == find_unary_suffix_op(cfg, symbol) # NPos

find_binary_op(cfg, symbol) ==
    FirstIndex(cfg.binary_operators,
               {i \in Indices(cfg.binary_operators) :
                    At(cfg.binary_operators, i).symbol = symbol})

binary_op_exists(cfg, symbol) == find_binary_op(cfg, symbol) # NPos

\* A variant of add_unary_prefix_op that skips the "already exists" check
\* (lines 108-111).
add_unary_prefix_op_unchecked(cfg, symbol) ==
    Ok([cfg EXCEPT !.unary_prefix_operators = Append(@, symbol)])

add_unary_prefix_op(cfg, symbol) ==
    IF unary_prefix_op_exists(cfg, symbol)
    THEN Throw(cfg, "logic_error")
    ELSE Ok([cfg EXCEPT !.unary_prefix_operators = Append(@, symbol)])

remove_unary_prefix_op(cfg, symbol) ==
    IF ~unary_prefix_op_exists(cfg, symbol)
    THEN Throw(cfg, "invalid_argument")
    ELSE Ok([cfg EXCEPT !.unary_prefix_operators =
                            EraseAt(@, find_unary_prefix_op(cfg, symbol))])

add_unary_suffix_op(cfg, symbol) ==
    IF unary_suffix_op_exists(cfg, symbol)
    THEN Throw(cfg, "logic_error")
    ELSE Ok([cfg EXCEPT !.unary_suffix_operators = Append(@, symbol)])

remove_unary_suffix_op(cfg, symbol) ==
    IF ~unary_suffix_op_exists(cfg, symbol)
    THEN Throw(cfg, "invalid_argument")
    ELSE Ok([cfg EXCEPT !.unary_suffix_operators =
                            EraseAt(@, find_unary_suffix_op(cfg, symbol))])

\* assoc is "left", "right" or "max" (the invalid default of binary_operator)
add_binary_op(cfg, symbol, assoc) ==
    IF binary_op_exists(cfg, symbol)
    THEN Throw(cfg, "logic_error")
    ELSE IF assoc = "max"
    THEN Throw(cfg, "logic_error")
    ELSE Ok([cfg EXCEPT !.binary_operators =
                            Append(@, [symbol |-> symbol, assoc |-> assoc])])

\* Erases the operator and nothing else: the rows keep their indices.
remove_binary_op(cfg, symbol) ==
    IF ~binary_op_exists(cfg, symbol)
    THEN Throw(cfg, "invalid_argument")
    ELSE Ok([cfg EXCEPT !.binary_operators =
                            EraseAt(@, find_binary_op(cfg, symbol))])

\* The first row that holds index, or NPos (the loops of assign_precedence,
\* unassign_precedence and get_precedence).
FirstRowWith(rows, index) ==
    FirstIndex(rows, {i \in Indices(rows) : Contains(At(rows, i), index)})

\* A variant of EraseFromRow that leaves the row in place when the erase
\* empties it.
EraseFromRow_keeping_row(rows, i, index) ==
    LET old == At(rows, i)
        row == EraseAt(old, FirstIndex(old, {k \in Indices(old) :
                                                At(old, k) = index}))
    IN  SetAt(rows, i, row)

\* row.erase(std::find(row.begin(), row.end(), index)) on row i, and the
\* erase of the row when that empties it.
EraseFromRow(rows, i, index) ==
    LET old == At(rows, i)
        row == EraseAt(old, FirstIndex(old, {k \in Indices(old) :
                                                At(old, k) = index}))
    IN  IF row = <<>> THEN EraseAt(rows, i) ELSE SetAt(rows, i, row)

\* A variant of assign_precedence that skips the erase of the row entry the
\* operator already has (lines 283-293).
assign_precedence_keeping(cfg, symbol, precedence, insert_row, override) ==
    LET index == find_binary_op(cfg, symbol)
        rows  == cfg.binary_op_precedence
        i     == FirstRowWith(rows, index)
        rows2 == IF insert_row THEN InsertAt(rows, precedence, <<>>) ELSE rows
    IN  IF index = NPos
        THEN Throw(cfg, "invalid_argument")
        ELSE IF i # NPos /\ ~override
        THEN Throw(cfg, "logic_error")
        ELSE IF insert_row /\ precedence > Len(rows)
        THEN Throw(cfg, "out_of_range")
        ELSE IF precedence >= Len(rows2)
        THEN Throw([cfg EXCEPT !.binary_op_precedence = rows2], "out_of_range")
        ELSE Ok([cfg EXCEPT !.binary_op_precedence =
                    SetAt(rows2, precedence,
                          Append(At(rows2, precedence), index))])

\* A variant of assign_precedence that does not lower the row argument
\* when the row it deleted was before it (lines 288-292).
assign_precedence_unadjusted(cfg, symbol, precedence, insert_row, override) ==
    LET index == find_binary_op(cfg, symbol)
        rows  == cfg.binary_op_precedence
        i     == FirstRowWith(rows, index)
        rows1 == IF i = NPos THEN rows ELSE EraseFromRow(rows, i, index)
        rows2 == IF insert_row THEN InsertAt(rows1, precedence, <<>>) ELSE rows1
    IN  IF index = NPos
        THEN Throw(cfg, "invalid_argument")
        ELSE IF i # NPos /\ ~override
        THEN Throw(cfg, "logic_error")
        ELSE IF insert_row /\ precedence > Len(rows1)
        THEN Throw([cfg EXCEPT !.binary_op_precedence = rows1], "out_of_range")
        ELSE IF precedence >= Len(rows2)
        THEN Throw([cfg EXCEPT !.binary_op_precedence = rows2], "out_of_range")
        ELSE Ok([cfg EXCEPT !.binary_op_precedence =
                    SetAt(rows2, precedence,
                          Append(At(rows2, precedence), index))])

assign_precedence(cfg, symbol, precedence, insert_row, override) ==
    LET index == find_binary_op(cfg, symbol)
        rows  == cfg.binary_op_precedence
        i     == FirstRowWith(rows, index)
        \* after the "already in the precedence level" loop
        rows1 == IF i = NPos THEN rows ELSE EraseFromRow(rows, i, index)
        prec1 == IF i # NPos /\ Len(rows1) < Len(rows) /\ i < precedence
                 THEN precedence - 1 ELSE precedence
        \* after "insert a new row if requested"
        rows2 == IF insert_row THEN InsertAt(rows1, prec1, <<>>) ELSE rows1
    IN  IF index = NPos
        THEN Throw(cfg, "invalid_argument")
        ELSE IF i # NPos /\ ~override
        THEN Throw(cfg, "logic_error")
        ELSE IF insert_row /\ prec1 > Len(rows1)
        THEN Throw([cfg EXCEPT !.binary_op_precedence = rows1], "out_of_range")
        ELSE IF prec1 >= Len(rows2)
        THEN Throw([cfg EXCEPT !.binary_op_precedence = rows2], "out_of_range")
        ELSE Ok([cfg EXCEPT !.binary_op_precedence =
                    SetAt(rows2, prec1, Append(At(rows2, prec1), index))])

\* The overload without a row: binary_op_precedence.size() - !insert_row,
\* computed in std::size_t (0 - 1 wraps to the largest value).
assign_precedence_lowest(cfg, symbol, insert_row, override) ==
    LET size == Len(cfg.binary_op_precedence)
        precedence == IF insert_row THEN size
                      ELSE IF size = 0 THEN NPos ELSE size - 1
    IN  assign_precedence(cfg, symbol, precedence, insert_row, override)

unassign_precedence(cfg, symbol) ==
    LET index == find_binary_op(cfg, symbol)
        rows  == cfg.binary_op_precedence
        i     == FirstRowWith(rows, index)
    IN  IF index = NPos
        THEN Throw(cfg, "invalid_argument")
        ELSE IF i = NPos
        THEN Ok(cfg)
        ELSE Ok([cfg EXCEPT !.binary_op_precedence = EraseFromRow(rows, i, index)])

\* [err, row]: the row of the operator, NPos when it has none
get_precedence(cfg, symbol) ==
    LET index == find_binary_op(cfg, symbol)
    IN  IF index = NPos
        THEN [err |-> "invalid_argument", row |-> NPos]
        ELSE [err |-> "none", row |-> FirstRowWith(cfg.binary_op_precedence, index)]

---------------------------------------------------------------------------
(* config::config(): the default operators and their precedence rows. *)

DefaultPrefixOperators == <<<<"+">>, <<"-">>, <<"*">>, <<"/">>, <<"!">>, <<"~">>>>

DefaultSuffixOperators == <<<<"!">>>>

DefaultBinaryOperators ==
    LET L(s) == [symbol |-> s, assoc |-> "left"]
        R(s) == [symbol |-> s, assoc |-> "right"]
    IN  <<L(<<"+">>), L(<<"-">>), L(<<"*">>), L(<<"/">>), L(<<"%">>), L(<<"%", "%">>), R(<<"*", "*">>), L(<<"/", "/">>),
          L(<<"=", "=">>), L(<<"!", "=">>), L(<<"<">>), L(<<">">>), L(<<"<", "=">>), L(<<">", "=">>), L(<<"&", "&">>), L(<<"|", "|">>),
          L(<<"&">>), L(<<"|">>), L(<<"^">>), L(<<"<", "<">>), L(<<">", ">">>), L(<<"!", "!">>), R(<<"?", "?">>), L(<<"<", "?">>),
          L(<<">", "?">>)>>

\* The constructor's assign_precedence(symbol, insert_row) calls, in order.
DefaultPrecedenceCalls ==
    LET N(s) == [symbol |-> s, insert_row |-> TRUE]
        S(s) == [symbol |-> s, insert_row |-> FALSE]
    IN  <<N(<<"<", "<">>), S(<<">", ">">>), N(<<"^">>), N(<<"&">>), S(<<"|">>), N(<<"!", "!">>), N(<<"<", "?">>), S(<<">", "?">>),
          N(<<"?", "?">>), N(<<"*", "*">>), N(<<"/", "/">>), N(<<"%">>), S(<<"%", "%">>), N(<<"*">>), S(<<"/">>), N(<<"+">>),
          S(<<"-">>), N(<<"=", "=">>), S(<<"!", "=">>), S(<<"<">>), S(<<">">>), S(<<"<", "=">>), S(<<">", "=">>), N(<<"&", "&">>),
          S(<<"|", "|">>)>>

RECURSIVE ApplyPrecedenceCalls(_, _, _)
ApplyPrecedenceCalls(cfg, calls, n) ==
    IF n = 0 THEN cfg
    ELSE LET before == ApplyPrecedenceCalls(cfg, calls, n - 1)
         IN  \* with no operator registered every call throws and changes
             \* nothing
             IF before.binary_operators = <<>> THEN before
             ELSE assign_precedence_lowest(before, calls[n].symbol,
                                           calls[n].insert_row, FALSE).cfg

DefaultConfig ==
    ApplyPrecedenceCalls(
        Config(DefaultPrefixOperators, DefaultSuffixOperators,
               DefaultBinaryOperators, <<>>),
        DefaultPrecedenceCalls, Len(DefaultPrecedenceCalls))

---------------------------------------------------------------------------
(* tokenize *)

identifier_start ==
    {"a", "b", "c", "d", "e", "f", "g", "h", "i", "j", "k", "l", "m", "n",
     "o", "p", "q", "r", "s", "t", "u", "v", "w", "x", "y", "z",
     "A", "B", "C", "D", "E", "F", "G", "H", "I", "J", "K", "L", "M", "N",
     "O", "P", "Q", "R", "S", "T", "U", "V", "W", "X", "Y", "Z", "_"}

number_start == {"0", "1", "2", "3", "4", "5", "6", "7", "8", "9"}

number_separator == {"'", "_"}

identifier_continue == identifier_start \cup number_start

number_continue == number_start \cup {"."}

operator_chars ==
    {"+", "-", "*", "/", "%", "^", "=", "!", "~", "&", "|", "<", ">", "?",
     ":", "[", "]"}

punctuation_chars == {"(", ")", ","}

\* std::isspace in the "C" locale
space_chars == {" ", "\t", "\n", "\r", "\f"}

\* expr.substr(begin, length)
Substr(text, begin, length) == SubSeq(text, begin + 1, begin + length)

Location(begin, length) == [begin |-> begin, length |-> length, pointer |-> 0]

Token(type, value, location) ==
    [type |-> type, value |-> value, location |-> location]

\* while (index < size && chars.contains(expr[index])) index++
RECURSIVE RunEnd(_, _, _)
RunEnd(text, index, chars) ==
    IF index < Len(text) /\ At(text, index) \in chars
    THEN RunEnd(text, index + 1, chars)
    ELSE index

\* std::copy_if(raw, value, !number_separator.contains(c))
RECURSIVE WithoutSeparators(_)
WithoutSeparators(raw) ==
    IF raw = <<>> THEN <<>>
    ELSE IF Head(raw) \in number_separator THEN WithoutSeparators(Tail(raw))
    ELSE <<Head(raw)>> \o WithoutSeparators(Tail(raw))

\* One token of the number branch: [err, token]
NumberToken(text, begin) ==
    LET index    == RunEnd(text, begin, number_continue)
        location == Location(begin, index - begin)
        raw      == Substr(text, begin, index - begin)
        points   == Cardinality({k \in 1 .. Len(raw) : raw[k] = "."})
    IN  IF raw[Len(raw)] \in number_separator
        THEN [err |-> "tokenizer_error", location |-> location]
        ELSE IF points > 1
        THEN [err |-> "tokenizer_error", location |-> location]
        ELSE [err |-> "none", location |-> location,
              token |-> Token("number", WithoutSeparators(raw), location)]

RECURSIVE TokenizeFrom(_, _, _)

\* A variant of the loop of tokenize that emits every operator character as
\* a Symbol token of its own instead of grouping a run (lines 123-145).
TokenizeFrom_ungrouped(text, index, tokens) ==
    IF index >= Len(text)
    THEN [err |-> "none", tokens |-> tokens]
    ELSE LET c == At(text, index)
         IN  IF c \in identifier_start
             THEN LET end == RunEnd(text, index, identifier_continue)
                      location == Location(index, end - index)
                  IN  TokenizeFrom(text, end,
                          Append(tokens, Token("identifier",
                              Substr(text, index, end - index), location)))
             ELSE IF c \in number_start
             THEN LET number == NumberToken(text, index)
                  IN  IF number.err # "none"
                      THEN [err |-> number.err, tokens |-> tokens,
                            location |-> number.location]
                      ELSE TokenizeFrom(text,
                              index + number.location.length,
                              Append(tokens, number.token))
             ELSE IF c \in operator_chars
             THEN TokenizeFrom(text, index + 1,
                      Append(tokens, Token("symbol", <<c>>,
                                           Location(index, 1))))
             ELSE IF c \in punctuation_chars
             THEN TokenizeFrom(text, index + 1,
                      Append(tokens, Token("punctuation", <<c>>,
                                           Location(index, 1))))
             ELSE IF c \in space_chars
             THEN TokenizeFrom(text, index + 1, tokens)
             ELSE [err |-> "tokenizer_error", tokens |-> tokens,
                   location |-> Location(index, 1)]

\* The loop of tokenize from index on, with the tokens found so far:
\* [err, tokens] and the location of a tokenizer_error.
TokenizeFrom(text, index, tokens) ==
    IF index >= Len(text)
    THEN [err |-> "none", tokens |-> tokens]
    ELSE LET c == At(text, index)
         IN  IF c \in identifier_start
             THEN LET end == RunEnd(text, index, identifier_continue)
                      location == Location(index, end - index)
                  IN  TokenizeFrom(text, end,
                          Append(tokens, Token("identifier",
                              Substr(text, index, end - index), location)))
             ELSE IF c \in number_start
             THEN LET number == NumberToken(text, index)
                  IN  IF number.err # "none"
                      THEN [err |-> number.err, tokens |-> tokens,
                            location |-> number.location]
                      ELSE TokenizeFrom(text,
                              index + number.location.length,
                              Append(tokens, number.token))
             ELSE IF c \in operator_chars
             THEN LET end == RunEnd(text, index, operator_chars)
                      location == Location(index, end - index)
                  IN  TokenizeFrom(text, end,
                          Append(tokens, Token("symbol",
                              Substr(text, index, end - index), location)))
             ELSE IF c \in punctuation_chars
             THEN TokenizeFrom(text, index + 1,
                      Append(tokens, Token("punctuation", <<c>>,
                                           Location(index, 1))))
             ELSE IF c \in space_chars
             THEN TokenizeFrom(text, index + 1, tokens)
             ELSE [err |-> "tokenizer_error", tokens |-> tokens,
                   location |-> Location(index, 1)]

tokenize(text) == TokenizeFrom(text, 0, <<>>)

---------------------------------------------------------------------------
(* The tree: ast_node and its five kinds. *)

Null == [kind |-> "null"]

number_ast(value, location) ==
    [kind |-> "number", value |-> value, location |-> location]

variable_ast(name, location) ==
    [kind |-> "variable", name |-> name, location |-> location]

function_ast(name, args, location) ==
    [kind |-> "function", name |-> name, args |-> args, location |-> location]

operator_ast(symbol, left, right, location) ==
    [kind |-> "operator", symbol |-> symbol, left |-> left, right |-> right,
     location |-> location]

conditional_ast(condition, true_value, false_value, location) ==
    [kind |-> "conditional", condition |-> condition,
     true_value |-> true_value, false_value |-> false_value,
     location |-> location]

---------------------------------------------------------------------------
(* parse.  Every parse_* operator returns [err, node, pos]: the node and   *)
(* the cursor after it, or err = "unexpected_token" with the token the     *)
(* exception carries, or err = "undefined" when the parser reads           *)
(* binary_operators[i] for an i that is not an index of it.                *)

Parsed(node, pos) == [err |-> "none", node |-> node, pos |-> pos]

unexpected_token(message, token) ==
    [err |-> "unexpected_token", message |-> message, token |-> token]

UndefinedRead == [err |-> "undefined"]

\* pos >= tokens.size() ? tokens[pos - 1] : tokens[pos]
TokenAtOrLast(tokens, pos) ==
    IF pos >= Len(tokens) THEN At(tokens, pos - 1) ELSE At(tokens, pos)

IsPunctuation(tokens, pos, c) ==
    /\ pos < Len(tokens)
    /\ At(tokens, pos).type = "punctuation"
    /\ At(tokens, pos).value = <<c>>

RECURSIVE Digits(_)
\* the value of a run of decimal digits
Digits(s) ==
    IF s = <<>> THEN 0
    ELSE 10 * Digits(SubSeq(s, 1, Len(s) - 1))
         + (CHOOSE d \in 0 .. 9 : ToString(d) = s[Len(s)])

\* std::stof on a number token's value: digits with at most one '.'.  A
\* value with a zero fraction is the integer; any other value is kept as
\* its whole part and the digits of its fraction (without trailing zeros),
\* which the parser stores and the evaluated codes never use.
stof(value) ==
    LET point == IF \E k \in 1 .. Len(value) : value[k] = "."
                 THEN CHOOSE k \in 1 .. Len(value) : value[k] = "."
                 ELSE Len(value) + 1
        whole == SubSeq(value, 1, point - 1)
        fraction == SubSeq(value, point + 1, Len(value))
        nonzero == {k \in 1 .. Len(fraction) : fraction[k] # "0"}
        last == CHOOSE k \in nonzero : \A j \in nonzero : j <= k
    IN  IF nonzero = {} THEN Digits(whole)
        ELSE [whole |-> Digits(whole),
              fraction |-> SubSeq(fraction, 1, last)]

\* The digits of 2^128 - 2^103, the least value that does not round to a
\* finite float: FLT_MAX is 2^128 - 2^104 and the value half way to 2^128
\* rounds up.
FloatOverflow ==
    <<"3", "4", "0", "2", "8", "2", "3", "5", "6", "7", "7", "9", "7",
      "3", "3", "6", "6", "1", "6", "3", "7", "5", "3", "9", "3", "9",
      "5", "4", "5", "8", "1", "4", "2", "5", "6", "8", "4", "4", "8">>

DigitOf(c) == CHOOSE d \in 0 .. 9 : ToString(d) = c

RECURSIVE StripZeros(_)
\* a run of digits without its leading zeros
StripZeros(s) ==
    IF s # <<>> /\ Head(s) = "0" THEN StripZeros(Tail(s)) ELSE s

RECURSIVE DigitsAtLeast(_, _)
\* a >= b for two runs of digits of the same length
DigitsAtLeast(a, b) ==
    IF a = <<>> THEN TRUE
    ELSE IF Head(a) # Head(b) THEN DigitOf(Head(a)) > DigitOf(Head(b))
    ELSE DigitsAtLeast(Tail(a), Tail(b))

\* std::stof throws std::out_of_range when the value is outside the range
\* of float (strtof sets ERANGE): here, when the whole part is at least
\* FloatOverflow.  (Whether a fraction that underflows sets ERANGE is up to
\* the C library; no code of the model has such a literal.)
stof_out_of_range(value) ==
    LET point == IF \E k \in 1 .. Len(value) : value[k] = "."
                 THEN CHOOSE k \in 1 .. Len(value) : value[k] = "."
                 ELSE Len(value) + 1
        whole == StripZeros(SubSeq(value, 1, point - 1))
    IN  \/ Len(whole) > Len(FloatOverflow)
        \/ Len(whole) = Len(FloatOverflow) /\ DigitsAtLeast(whole, FloatOverflow)

\* What a throwing std::stof leaves parse with: std::out_of_range, which
\* is no code_error and carries no token.
out_of_range(what) == [err |-> "out_of_range", message |-> what]

parse_number(tokens, cfg, pos) ==
    LET tok == At(tokens, pos)
    IN  IF tok.type # "number"
        THEN unexpected_token("Expected number", tok)
        ELSE IF stof_out_of_range(tok.value)
        THEN out_of_range("stof")
        ELSE Parsed(number_ast(stof(tok.value), tok.location), pos + 1)

parse_variable(tokens, cfg, pos) ==
    LET tok == At(tokens, pos)
    IN  Parsed(variable_ast(tok.value, tok.location), pos + 1)

\* A variant of right_operand_level that parses every right operand as a
\* primary, whatever the row.
right_operand_always_primary(prec, assoc) == [primary |-> TRUE, prec |-> 0]

\* A variant of right_operand_level that parses the right operand of a
\* left-associative operator at the operator's own row.
right_operand_same_row(prec, assoc) ==
    IF prec = 0 THEN [primary |-> TRUE, prec |-> 0]
    ELSE [primary |-> FALSE, prec |-> prec]

\* How the right operand of an operator of row prec is parsed: by
\* parse_primary, or by parse_binary_op at row prec.
right_operand_level(prec, assoc) ==
    IF prec = 0 THEN [primary |-> TRUE, prec |-> 0]
    ELSE IF assoc = "right" THEN [primary |-> FALSE, prec |-> prec]
    ELSE [primary |-> FALSE, prec |-> prec - 1]

\* The parse functions call one another through parse_call, the one
\* recursive operator of the parser: rule names the function called, and
\* node and prec are passed to the functions that take them.
RECURSIVE parse_call(_, _, _, _, _, _)

parse_all(tokens, cfg, pos) ==
    parse_call("parse_condition", tokens, cfg, Null, pos, 0)

\* The suffix loop of parse_primary: wraps node in every suffix operator
\* that follows.
parse_suffixes(tokens, cfg, node, pos) ==
    IF /\ pos < Len(tokens)
       /\ At(tokens, pos).type = "symbol"
       /\ Contains(cfg.unary_suffix_operators, At(tokens, pos).value)
    THEN parse_call("parse_suffixes", tokens, cfg,
             operator_ast(At(tokens, pos).value, node, Null,
                          At(tokens, pos).location),
             pos + 1, 0)
    ELSE Parsed(node, pos)

\* The argument loop of parse_function, with the arguments parsed so far.
parse_arguments(tokens, cfg, node, pos) ==
    LET arg == parse_all(tokens, cfg, pos)
        more == [node EXCEPT !.args = Append(@, arg.node)]
    IN  IF arg.err # "none" THEN arg
        ELSE IF IsPunctuation(tokens, arg.pos, ",")
        THEN parse_call("parse_arguments", tokens, cfg, more, arg.pos + 1, 0)
        ELSE IF IsPunctuation(tokens, arg.pos, ")")
        THEN Parsed(more, arg.pos + 1)
        ELSE unexpected_token("Expected ',' or ')' in function arguments",
                              TokenAtOrLast(tokens, arg.pos))

parse_function(tokens, cfg, pos) ==
    LET node == function_ast(At(tokens, pos).value, <<>>,
                             At(tokens, pos).location)
    IN  IF ~IsPunctuation(tokens, pos + 1, "(")
        THEN unexpected_token("Expected '(' after function name",
                              TokenAtOrLast(tokens, pos + 1))
        ELSE IF IsPunctuation(tokens, pos + 2, ")")
        THEN Parsed(node, pos + 3)
        ELSE parse_arguments(tokens, cfg, node, pos + 2)

parse_identifier(tokens, cfg, pos) ==
    IF At(tokens, pos).type # "identifier"
    THEN unexpected_token("Expected identifier", At(tokens, pos))
    ELSE IF IsPunctuation(tokens, pos + 1, "(")
    THEN parse_function(tokens, cfg, pos)
    ELSE parse_variable(tokens, cfg, pos)

parse_parenthesis(tokens, cfg, pos) ==
    IF ~IsPunctuation(tokens, pos, "(")
    THEN unexpected_token("Expected '('", At(tokens, pos))
    ELSE LET inner == parse_all(tokens, cfg, pos + 1)
         IN  IF inner.err # "none" THEN inner
             ELSE IF ~IsPunctuation(tokens, inner.pos, ")")
             THEN unexpected_token("Expected ')'",
                                   TokenAtOrLast(tokens, inner.pos))
             ELSE Parsed(inner.node, inner.pos + 1)

parse_primary(tokens, cfg, pos) ==
    IF pos >= Len(tokens)
    THEN unexpected_token("Unexpected end of expression", At(tokens, pos - 1))
    ELSE LET tok == At(tokens, pos)
             prefix_op_found ==
                 /\ tok.type = "symbol"
                 /\ Contains(cfg.unary_prefix_operators, tok.value)
             operand == parse_call("parse_primary", tokens, cfg, Null,
                                   pos + 1, 0)
             core ==
                 IF prefix_op_found
                 THEN IF operand.err # "none" THEN operand
                      ELSE Parsed(operator_ast(tok.value, Null, operand.node,
                                               tok.location),
                                  operand.pos)
                 ELSE IF tok.type = "number"
                 THEN parse_number(tokens, cfg, pos)
                 ELSE IF tok.type = "identifier"
                 THEN parse_identifier(tokens, cfg, pos)
                 ELSE IF tok.type = "punctuation" /\ tok.value = <<"(">>
                 THEN parse_parenthesis(tokens, cfg, pos)
                 ELSE unexpected_token(
                          "Expected number, identifier or punctuation", tok)
         IN  IF core.err # "none" THEN core
             ELSE parse_suffixes(tokens, cfg, core.node, core.pos)

\* The "match operators in the same level of precedence" loop of
\* parse_binary_op, with the left operand built so far.
parse_binary_loop(tokens, cfg, left, pos, prec) ==
    IF pos >= Len(tokens) THEN Parsed(left, pos)
    ELSE
    LET row == At(cfg.binary_op_precedence, prec)
        tok == At(tokens, pos)
        Dangling(i) == i >= Len(cfg.binary_operators)
        \* the for loop stops at the first entry it cannot read or that
        \* matches the token
        Stops(i) ==
            \/ Dangling(i)
            \/ /\ tok.type = "symbol"
               /\ tok.value = At(cfg.binary_operators, i).symbol
        k == FirstIndex(row, {j \in Indices(row) : Stops(At(row, j))})
        op_info == At(cfg.binary_operators, At(row, k))
        level == right_operand_level(prec, op_info.assoc)
        right == IF level.primary
                 THEN parse_call("parse_primary", tokens, cfg, Null,
                                 pos + 1, 0)
                 ELSE parse_call("parse_binary_op", tokens, cfg, Null,
                                 pos + 1, level.prec)
    IN  IF k = NPos THEN Parsed(left, pos)
        ELSE IF Dangling(At(row, k)) THEN UndefinedRead
        ELSE IF right.err # "none" THEN right
        ELSE parse_call("parse_binary_loop", tokens, cfg,
                 operator_ast(tok.value, left, right.node, tok.location),
                 right.pos, prec)

\* The chain of calls parse_binary_op(prec) -> parse_binary_op(prec - 1)
\* -> ... -> parse_binary_op(0) -> parse_primary as it returns: left is
\* what the rows before level produced, and it is the left operand of the
\* loop of row level; the loop of row prec is the last.
RECURSIVE parse_binary_levels(_, _, _, _, _)
parse_binary_levels(tokens, cfg, left, level, prec) ==
    IF left.err # "none" THEN left
    ELSE IF level > prec THEN left
    ELSE parse_binary_levels(tokens, cfg,
             parse_binary_loop(tokens, cfg, left.node, left.pos, level),
             level + 1, prec)

parse_binary_op(tokens, cfg, pos, prec) ==
    parse_binary_levels(tokens, cfg, parse_primary(tokens, cfg, pos), 0, prec)

\* parse_condition if it read its condition with parse_primary whatever
\* the rows are: the ternary would bind tighter than the binary operators.
parse_condition_tight(tokens, cfg, pos) ==
    LET size == Len(cfg.binary_op_precedence)
        condition == parse_call("parse_primary", tokens, cfg, Null, pos, 0)
        at == condition.pos
        true_value == parse_all(tokens, cfg, at + 1)
        false_value == parse_all(tokens, cfg, true_value.pos + 1)
    IN  IF condition.err # "none" THEN condition
        ELSE IF \/ at >= Len(tokens)
                \/ At(tokens, at).type # "symbol"
                \/ At(tokens, at).value # <<"?">>
        THEN condition
        ELSE IF true_value.err # "none" THEN true_value
        ELSE IF \/ true_value.pos >= Len(tokens)
                \/ At(tokens, true_value.pos).value # <<":">>
        THEN unexpected_token("Expected ':' in conditional expression",
                              TokenAtOrLast(tokens, true_value.pos))
        ELSE IF false_value.err # "none" THEN false_value
        ELSE Parsed(conditional_ast(condition.node, true_value.node,
                                    false_value.node,
                                    At(tokens, at).location),
                    false_value.pos)

parse_condition(tokens, cfg, pos) ==
    LET size == Len(cfg.binary_op_precedence)
        condition == IF size = 0
                     THEN parse_call("parse_primary", tokens, cfg, Null,
                                     pos, 0)
                     ELSE parse_call("parse_binary_op", tokens, cfg, Null,
                                     pos, size - 1)
        at == condition.pos
        true_value == parse_all(tokens, cfg, at + 1)
        false_value == parse_all(tokens, cfg, true_value.pos + 1)
    IN  IF condition.err # "none" THEN condition
        ELSE IF \/ at >= Len(tokens)
                \/ At(tokens, at).type # "symbol"
                \/ At(tokens, at).value # <<"?">>
        THEN condition
        ELSE IF true_value.err # "none" THEN true_value
        ELSE IF \/ true_value.pos >= Len(tokens)
                \/ At(tokens, true_value.pos).value # <<":">>
        THEN unexpected_token("Expected ':' in conditional expression",
                              TokenAtOrLast(tokens, true_value.pos))
        ELSE IF false_value.err # "none" THEN false_value
        ELSE Parsed(conditional_ast(condition.node, true_value.node,
                                    false_value.node,
                                    At(tokens, at).location),
                    false_value.pos)

parse_call(rule, tokens, cfg, node, pos, prec) ==
    CASE rule = "parse_primary" -> parse_primary(tokens, cfg, pos)
      [] rule = "parse_suffixes" -> parse_suffixes(tokens, cfg, node, pos)
      [] rule = "parse_arguments" -> parse_arguments(tokens, cfg, node, pos)
      [] rule = "parse_binary_op" -> parse_binary_op(tokens, cfg, pos, prec)
      [] rule = "parse_binary_loop" ->
            parse_binary_loop(tokens, cfg, node, pos, prec)
      [] rule = "parse_condition" -> parse_condition(tokens, cfg, pos)

\* fluxins::parse without its test for an empty stream: parse_primary
\* finds the end of the expression at once.
parse_nonempty(tokens, cfg) ==
    IF tokens = <<>>
    THEN unexpected_token("Unexpected end of expression",
                          Token("number", <<>>, Location(0, 0)))
    ELSE LET all == parse_all(tokens, cfg, 0)
         IN  IF all.err # "none" THEN all
             ELSE IF all.pos # Len(tokens)
             THEN unexpected_token("Unexpected tokens after expression",
                                   At(tokens, all.pos))
             ELSE [err |-> "none", node |-> all.node]

\* fluxins::parse: [err, node] with the token of an unexpected_token
parse(tokens, cfg) ==
    IF tokens = <<>>
    THEN [err |-> "none", node |-> number_ast(0, Location(0, 0))]
    ELSE LET all == parse_all(tokens, cfg, 0)
         IN  IF all.err # "none" THEN all
             ELSE IF all.pos # Len(tokens)
             THEN unexpected_token("Unexpected tokens after expression",
                                   At(tokens, all.pos))
             ELSE [err |-> "none", node |-> all.node]

---------------------------------------------------------------------------
(* context *)

Context(variables, functions, parents) ==
    [variables |-> variables, functions |-> functions, parents |-> parents]

\* std::make_shared<context>()
EmptyContext == Context(<<>>, <<>>, <<>>)

\* The std::optional results of resolve_*: [found, value]
Nullopt == [found |-> FALSE]
Resolved(v) == [found |-> TRUE, value |-> v]

RECURSIVE resolve_variable(_, _), resolve_in_parents(_, _, _, _)

\* The loop over parents of resolve_variable ("variables") and
\* resolve_function ("functions"), from parent i on.
resolve_in_parents(ctx, name, field, i) ==
    IF i >= Len(ctx.parents) THEN Nullopt
    ELSE LET parent == At(ctx.parents, i)
             resolved == IF name \in DOMAIN parent[field]
                         THEN Resolved(parent[field][name])
                         ELSE resolve_in_parents(parent, name, field, 0)
         IN  IF resolved.found THEN resolved
             ELSE resolve_in_parents(ctx, name, field, i + 1)

resolve_variable(ctx, name) ==
    IF name \in DOMAIN ctx.variables
    THEN Resolved(ctx.variables[name])
    ELSE resolve_in_parents(ctx, name, "variables", 0)

resolve_function(ctx, name) ==
    IF name \in DOMAIN ctx.functions
    THEN Resolved(ctx.functions[name])
    ELSE resolve_in_parents(ctx, name, "functions", 0)

---------------------------------------------------------------------------
(* The callables: the operate lambdas of the default operators, the        *)
(* operators the tests add, and the functions the tests register.  Each    *)
(* returns [err, value].  Floats are integers here, so only the results    *)
(* that are exact on integers are given; an operator that is not listed    *)
(* (the bitwise ones, a quotient with a remainder) has no case.            *)

Returns(v) == [err |-> "none", value |-> v]
Raises(e, message) == [err |-> e, message |-> message]

Bool(b) == IF b THEN 1 ELSE 0

Abs(x) == IF x < 0 THEN -x ELSE x

\* x / y and std::fmod(x, y) of C: the quotient is truncated towards zero
\* and the remainder has the sign of x
TruncDiv(x, y) ==
    IF (x < 0) = (y < 0) THEN Abs(x) \div Abs(y) ELSE -(Abs(x) \div Abs(y))

TruncRem(x, y) == x - y * TruncDiv(x, y)

\* std::floor(x / y)
FloorDiv(x, y) ==
    IF TruncRem(x, y) # 0 /\ ((x < 0) # (y < 0))
    THEN TruncDiv(x, y) - 1 ELSE TruncDiv(x, y)

RECURSIVE factorial(_)
factorial(x) ==
    IF x < 0 THEN 0
    ELSE IF x = 0 \/ x = 1 THEN 1
    ELSE x * factorial(x - 1)

RECURSIVE Power(_, _)
Power(x, n) == IF n = 0 THEN 1 ELSE x * Power(x, n - 1)

unary_prefix_operate(symbol, x) ==
    CASE symbol = <<"+">> -> Returns(0 + x)
      [] symbol = <<"-">> -> Returns(0 - x)
      [] symbol = <<"*">> -> Returns(1 * x)
      [] symbol = <<"/">> /\ x = 0 -> Raises("code_error", "Division by zero")
      [] symbol = <<"/">> /\ Abs(x) = 1 -> Returns(x)
      [] symbol = <<"!">> -> Returns(Bool(x = 0))
      [] symbol = <<"~">> -> Returns(-x - 1)
      [] symbol = <<"+", "+">> -> Returns(x + 1)

unary_suffix_operate(symbol, x) ==
    CASE symbol = <<"!">> -> Returns(factorial(x))
      [] symbol = <<"-", "-">> -> Returns(x - 1)

binary_operate(symbol, x, y) ==
    CASE symbol = <<"+">> -> Returns(x + y)
      [] symbol = <<"-">> -> Returns(x - y)
      [] symbol = <<"*">> -> Returns(x * y)
      [] symbol = <<"/">> /\ y = 0 -> Raises("code_error", "Division by zero")
      [] symbol = <<"/">> /\ y # 0 /\ TruncRem(x, y) = 0 ->
            Returns(TruncDiv(x, y))
      [] symbol = <<"%">> /\ y = 0 -> Raises("code_error", "Modulo by zero")
      [] symbol = <<"%">> /\ y # 0 -> Returns(TruncRem(x, y))
      [] symbol = <<"*", "*">> /\ y >= 0 -> Returns(Power(x, y))
      [] symbol = <<"/", "/">> /\ y = 0 ->
            Raises("code_error", "Flooring division by zero")
      [] symbol = <<"/", "/">> /\ y # 0 -> Returns(FloorDiv(x, y))
      [] symbol = <<"=", "=">> -> Returns(Bool(x = y))
      [] symbol = <<"!", "=">> -> Returns(Bool(x # y))
      [] symbol = <<"<">> -> Returns(Bool(x < y))
      [] symbol = <<">">> -> Returns(Bool(x > y))
      [] symbol = <<"<", "=">> -> Returns(Bool(x <= y))
      [] symbol = <<">", "=">> -> Returns(Bool(x >= y))
      [] symbol = <<"&", "&">> -> Returns(Bool(x # 0 /\ y # 0))
      [] symbol = <<"|", "|">> -> Returns(Bool(x # 0 \/ y # 0))
      [] symbol = <<"!", "!">> -> Returns(Abs(x - y))
      [] symbol = <<"?", "?">> -> Returns(IF x # 0 THEN x ELSE y)
      [] symbol = <<"<", "?">> -> Returns(IF x < y THEN x ELSE y)
      [] symbol = <<">", "?">> -> Returns(IF x > y THEN x ELSE y)
      [] symbol = <<"+", "+", "+">> -> Returns(2 * x * y)

\* The function the tests register as "add": FLUXINS_FN_ARITY("add", 2),
\* then params[0] + params[1].
call_function(function, params) ==
    CASE function = "add" ->
            IF Len(params) # 2 THEN Raises("invalid_arity", "add")
            ELSE Returns(params[1] + params[2])

---------------------------------------------------------------------------
(* evaluate.  Returns [err, value, log]: log is the sequence of callable   *)
(* invocations (operator and function callables) in the order they were    *)
(* made, also when the evaluation raised.  An unresolved_reference carries *)
(* the name and the type the exception was constructed with.               *)

Value(v, log) == [err |-> "none", value |-> v, log |-> log]

unresolved_reference(name, type, log) ==
    [err |-> "unresolved_reference", name |-> name, type |-> type, log |-> log]

Invocation(callable, name, args) ==
    [callable |-> callable, name |-> name, args |-> args]

\* The call of a callable after the evaluations logged in log: the callable
\* runs (and is logged), and returns or raises.
Invoke(result, invocation, log) ==
    IF result.err = "none"
    THEN Value(result.value, Append(log, invocation))
    ELSE [err |-> result.err, message |-> result.message,
          log |-> Append(log, invocation)]

\* r raised after the evaluations logged in log
After(log, r) == [r EXCEPT !.log = log \o @]

RECURSIVE evaluate(_, _, _), evaluate_args(_, _, _, _, _)

\* The argument loop of function_ast::evaluate from argument i on:
\* [err, values, log]
evaluate_args(args, cfg, ctx, i, done) ==
    IF i >= Len(args) THEN done
    ELSE LET arg == evaluate(At(args, i), cfg, ctx)
         IN  IF arg.err # "none" THEN After(done.log, arg)
             ELSE evaluate_args(args, cfg, ctx, i + 1,
                      [err |-> "none",
                       values |-> Append(done.values, arg.value),
                       log |-> done.log \o arg.log])

number_ast_evaluate(node, cfg, ctx) == Value(node.value, <<>>)

variable_ast_evaluate(node, cfg, ctx) ==
    LET resolved == resolve_variable(ctx, node.name)
    IN  IF resolved.found THEN Value(resolved.value, <<>>)
        ELSE unresolved_reference(node.name, "variable", <<>>)

\* A variant of function_ast_evaluate that evaluates the arguments before
\* it resolves the name.
function_ast_evaluate_arguments_first(node, cfg, ctx) ==
    LET resolved == resolve_function(ctx, node.name)
        args == evaluate_args(node.args, cfg, ctx, 0,
                    [err |-> "none", values |-> <<>>, log |-> <<>>])
    IN  IF args.err # "none" THEN args
        ELSE IF ~resolved.found
        THEN unresolved_reference(node.name, "function", args.log)
        ELSE Invoke(call_function(resolved.value, args.values),
                    Invocation("function", node.name, args.values),
                    args.log)

function_ast_evaluate(node, cfg, ctx) ==
    LET resolved == resolve_function(ctx, node.name)
        args == evaluate_args(node.args, cfg, ctx, 0,
                    [err |-> "none", values |-> <<>>, log |-> <<>>])
    IN  IF ~resolved.found
        THEN unresolved_reference(node.name, "function", <<>>)
        ELSE IF args.err # "none" THEN args
        ELSE Invoke(call_function(resolved.value, args.values),
                    Invocation("function", node.name, args.values),
                    args.log)

\* A variant of operator_ast_evaluate in which && does not evaluate its
\* right operand when the left one is 0.
operator_ast_evaluate_short_circuit(node, cfg, ctx) ==
    LET left  == evaluate(node.left, cfg, ctx)
        right == evaluate(node.right, cfg, ctx)
    IN  IF node.left = Null \/ node.right = Null
        THEN IF node.left # Null
             THEN IF left.err # "none" THEN left
                  ELSE Invoke(unary_suffix_operate(node.symbol, left.value),
                              Invocation("unary suffix operator", node.symbol,
                                         <<left.value>>),
                              left.log)
             ELSE IF right.err # "none" THEN right
                  ELSE Invoke(unary_prefix_operate(node.symbol, right.value),
                              Invocation("unary prefix operator", node.symbol,
                                         <<right.value>>),
                              right.log)
        ELSE IF left.err # "none" THEN left
        ELSE IF node.symbol = <<"&", "&">> /\ left.value = 0
        THEN Value(0, left.log)
        ELSE IF right.err # "none" THEN After(left.log, right)
        ELSE IF ~binary_op_exists(cfg, node.symbol)
        THEN unresolved_reference(node.symbol, "binary operator",
                                  left.log \o right.log)
        ELSE Invoke(binary_operate(node.symbol, left.value, right.value),
                    Invocation("binary operator", node.symbol,
                               <<left.value, right.value>>),
                    left.log \o right.log)

\* A variant of operator_ast_evaluate that does not look the operator up
\* before it calls it.
operator_ast_evaluate_unchecked(node, cfg, ctx) ==
    LET left  == IF node.left # Null
                 THEN evaluate(node.left, cfg, ctx) ELSE Value(0, <<>>)
        right == IF node.right # Null
                 THEN evaluate(node.right, cfg, ctx) ELSE Value(0, <<>>)
        log   == left.log \o right.log
    IN  IF left.err # "none" THEN left
        ELSE IF right.err # "none" THEN After(left.log, right)
        ELSE IF node.left # Null /\ node.right # Null
        THEN Invoke(binary_operate(node.symbol, left.value, right.value),
                    Invocation("binary operator", node.symbol,
                               <<left.value, right.value>>),
                    log)
        ELSE IF node.left # Null
        THEN Invoke(unary_suffix_operate(node.symbol, left.value),
                    Invocation("unary suffix operator", node.symbol,
                               <<left.value>>),
                    log)
        ELSE Invoke(unary_prefix_operate(node.symbol, right.value),
                    Invocation("unary prefix operator", node.symbol,
                               <<right.value>>),
                    log)

operator_ast_evaluate(node, cfg, ctx) ==
    LET left  == IF node.left # Null
                 THEN evaluate(node.left, cfg, ctx) ELSE Value(0, <<>>)
        right == IF node.right # Null
                 THEN evaluate(node.right, cfg, ctx) ELSE Value(0, <<>>)
        log   == left.log \o right.log
    IN  IF left.err # "none" THEN left
        ELSE IF right.err # "none" THEN After(left.log, right)
        ELSE IF node.left # Null /\ node.right # Null
        THEN IF ~binary_op_exists(cfg, node.symbol)
             THEN unresolved_reference(node.symbol, "binary operator", log)
             ELSE Invoke(binary_operate(node.symbol, left.value, right.value),
                         Invocation("binary operator", node.symbol,
                                    <<left.value, right.value>>),
                         log)
        ELSE IF node.left # Null
        THEN IF ~unary_suffix_op_exists(cfg, node.symbol)
             THEN unresolved_reference(node.symbol, "unary prefix operator",
                                       log)
             ELSE Invoke(unary_suffix_operate(node.symbol, left.value),
                         Invocation("unary suffix operator", node.symbol,
                                    <<left.value>>),
                         log)
        ELSE IF node.right # Null
        THEN IF ~unary_prefix_op_exists(cfg, node.symbol)
             THEN unresolved_reference(node.symbol, "unary prefix operator",
                                       log)
             ELSE Invoke(unary_prefix_operate(node.symbol, right.value),
                         Invocation("unary prefix operator", node.symbol,
                                    <<right.value>>),
                         log)
        ELSE [err |-> "code_error",
              message |-> "No operands for operator was specified",
              log |-> log]

\* A variant of conditional_ast_evaluate that evaluates both branches and
\* then selects one of the two values.
conditional_ast_evaluate_both(node, cfg, ctx) ==
    LET condition == evaluate(node.condition, cfg, ctx)
        true_value == evaluate(node.true_value, cfg, ctx)
        false_value == evaluate(node.false_value, cfg, ctx)
    IN  IF condition.err # "none" THEN condition
        ELSE IF true_value.err # "none"
        THEN After(condition.log, true_value)
        ELSE IF false_value.err # "none"
        THEN After(condition.log \o true_value.log, false_value)
        ELSE Value(IF condition.value # 0
                   THEN true_value.value ELSE false_value.value,
                   condition.log \o true_value.log \o false_value.log)

conditional_ast_evaluate(node, cfg, ctx) ==
    LET condition == evaluate(node.condition, cfg, ctx)
    IN  IF condition.err # "none" THEN condition
        ELSE IF condition.value # 0
        THEN After(condition.log, evaluate(node.true_value, cfg, ctx))
        ELSE After(condition.log, evaluate(node.false_value, cfg, ctx))

\* ast_node::evaluate: the virtual call
evaluate(node, cfg, ctx) ==
    CASE node.kind = "number" -> number_ast_evaluate(node, cfg, ctx)
      [] node.kind = "variable" -> variable_ast_evaluate(node, cfg, ctx)
      [] node.kind = "function" -> function_ast_evaluate(node, cfg, ctx)
      [] node.kind = "operator" -> operator_ast_evaluate(node, cfg, ctx)
      [] node.kind = "conditional" -> conditional_ast_evaluate(node, cfg, ctx)

---------------------------------------------------------------------------
(* expression: the facade over code, config, context and the caches.  An   *)
(* expression is [expr, tokens, ast, value, ctx]; its config is passed     *)
(* along (cfg ? cfg : default_config).  Each operation returns the         *)
(* expression it leaves behind and what it threw.                          *)

Expression(text, ctx) ==
    [expr |-> text, tokens |-> <<>>, ast |-> Null, value |-> 0, ctx |-> ctx]

expression_parse(e, cfg) ==
    LET tokenized == tokenize(e.expr)
        withTokens == [e EXCEPT !.tokens = tokenized.tokens]
        parsed == parse(tokenized.tokens, cfg)
    IN  IF tokenized.err # "none"
        THEN [e |-> e, result |-> tokenized]
        ELSE IF parsed.err # "none"
        THEN [e |-> withTokens, result |-> parsed]
        ELSE [e |-> [withTokens EXCEPT !.ast = parsed.node],
              result |-> parsed]

\* A variant of expression::evaluate that clears the cached value before
\* it evaluates the tree.
expression_evaluate_clearing(e, cfg) ==
    LET ctx == IF e.ctx = Null THEN EmptyContext ELSE e.ctx
        withCtx == [e EXCEPT !.ctx = ctx, !.value = 0]
        evaluated == evaluate(e.ast, cfg, ctx)
    IN  IF evaluated.err # "none"
        THEN [e |-> withCtx, result |-> evaluated]
        ELSE [e |-> [withCtx EXCEPT !.value = evaluated.value],
              result |-> evaluated]

expression_evaluate(e, cfg) ==
    LET ctx == IF e.ctx = Null THEN EmptyContext ELSE e.ctx
        withCtx == [e EXCEPT !.ctx = ctx]
        evaluated == evaluate(e.ast, cfg, ctx)
    IN  IF evaluated.err # "none"
        THEN [e |-> withCtx, result |-> evaluated]
        ELSE [e |-> [withCtx EXCEPT !.value = evaluated.value],
              result |-> evaluated]

---------------------------------------------------------------------------
(* The state. *)

CurrentConfig ==
    Config(unary_prefix_operators, unary_suffix_operators,
           binary_operators, binary_op_precedence)

SetConfig(cfg) ==
    /\ unary_prefix_operators' = cfg.unary_prefix_operators
    /\ unary_suffix_operators' = cfg.unary_suffix_operators
    /\ binary_operators' = cfg.binary_operators
    /\ binary_op_precedence' = cfg.binary_op_precedence

StartConfig(cfg) ==
    /\ unary_prefix_operators = cfg.unary_prefix_operators
    /\ unary_suffix_operators = cfg.unary_suffix_operators
    /\ binary_operators = cfg.binary_operators
    /\ binary_op_precedence = cfg.binary_op_precedence

\* No expression has been constructed yet.
NoExpression == Expression(<<>>, Null)

\* Text helpers for the codes the model parses.
Sp == <<" ">>

Paren(text) == <<"(">> \o text \o <<")">>

Binary(a, op, b) == a \o Sp \o op \o Sp \o b

---------------------------------------------------------------------------
(* The state machine of a Config under its mutating operations, from the   *)
(* default Config.                                                         *)

\* Symbols the config operations are called with: default operators of
\* different rows and associativities, and two that the default Config
\* does not register.
ConfigSymbols ==
    {<<"<", "<">>, <<"|", "|">>, <<"*", "*">>, <<"+", "+", "+">>, <<"<", ">">>}

Associativities == {"left", "right"}

\* Row arguments: the first rows, and around the number of rows.
PrecedenceArgs ==
    {0, 1} \cup {Len(binary_op_precedence) + d : d \in {-1, 0, 1}}

ConfigInit ==
    /\ StartConfig(DefaultConfig)
    /\ expression = NoExpression
    /\ effects = <<>>
    /\ contexts = <<>>
    /\ outcome = [op |-> "config", err |-> "none"]
    /\ steps = 0

\* One call of a config operation: the config afterwards is the one the
\* call left behind, also when it threw.  before is the row the operator
\* had when the call was made (NPos: none, or not registered).
ConfigCall(op, symbol, result) ==
    /\ SetConfig(result.cfg)
    /\ outcome' = [op |-> op, err |-> result.err, symbol |-> symbol,
                   before |-> get_precedence(CurrentConfig, symbol).row]
    /\ UNCHANGED <<expression, effects, contexts>>

AddBinaryOp ==
    /\ steps < MaxConfigOps
    /\ steps' = steps + 1
    /\ \E symbol \in ConfigSymbols, assoc \in Associativities :
        ConfigCall("add_binary_op", symbol,
                   add_binary_op(CurrentConfig, symbol, assoc))

RemoveBinaryOp ==
    /\ steps < MaxConfigOps
    /\ steps' = steps + 1
    /\ \E symbol \in ConfigSymbols :
        ConfigCall("remove_binary_op", symbol,
                   remove_binary_op(CurrentConfig, symbol))

AssignPrecedence ==
    /\ steps < MaxConfigOps
    /\ steps' = steps + 1
    /\ \E symbol \in ConfigSymbols, precedence \in PrecedenceArgs,
          insert_row \in BOOLEAN, override \in BOOLEAN :
        ConfigCall("assign_precedence", symbol,
                   assign_precedence(CurrentConfig, symbol, precedence,
                                     insert_row, override))

AssignPrecedenceLowest ==
    /\ steps < MaxConfigOps
    /\ steps' = steps + 1
    /\ \E symbol \in ConfigSymbols, insert_row \in BOOLEAN,
          override \in BOOLEAN :
        ConfigCall("assign_precedence_lowest", symbol,
                   assign_precedence_lowest(CurrentConfig, symbol,
                                            insert_row, override))

UnassignPrecedence ==
    /\ steps < MaxConfigOps
    /\ steps' = steps + 1
    /\ \E symbol \in ConfigSymbols :
        ConfigCall("unassign_precedence", symbol,
                   unassign_precedence(CurrentConfig, symbol))

ConfigNext ==
    \/ AddBinaryOp
    \/ RemoveBinaryOp
    \/ AssignPrecedence
    \/ AssignPrecedenceLowest
    \/ UnassignPrecedence

SpecConfig == ConfigInit /\ [][ConfigNext]_vars

---------------------------------------------------------------------------
(* The state machine of the three operator groups of a Config under add_*  *)
(* and remove_*, from the default Config.                                  *)

\* Symbols the group operations are called with: "!" is a default prefix
\* and suffix operator, "+" a default prefix and binary operator, "**" a
\* default binary operator, "+++" is in no group.
GroupSymbols == {<<"!">>, <<"+">>, <<"*", "*">>, <<"+", "+", "+">>}

\* left, right, and the invalid default of binary_operator::assoc
AnyAssociativity == {"left", "right", "max"}

GroupInit ==
    /\ StartConfig(DefaultConfig)
    /\ expression = NoExpression
    /\ effects = <<>>
    /\ contexts = <<>>
    /\ outcome = [op |-> "config", err |-> "none"]
    /\ steps = 0

\* One call of an add_* or remove_* operation on a group: before is the
\* Config the call was made on.
GroupCall(op, group, symbol, result) ==
    /\ steps < MaxConfigOps
    /\ steps' = steps + 1
    /\ SetConfig(result.cfg)
    /\ outcome' = [op |-> op, group |-> group, err |-> result.err,
                   symbol |-> symbol, before |-> CurrentConfig]
    /\ UNCHANGED <<expression, effects, contexts>>

AddPrefixOp ==
    \E symbol \in GroupSymbols :
        GroupCall("add", "prefix", symbol,
                  add_unary_prefix_op(CurrentConfig, symbol))

RemoveGroupPrefixOp ==
    \E symbol \in GroupSymbols :
        GroupCall("remove", "prefix", symbol,
                  remove_unary_prefix_op(CurrentConfig, symbol))

AddSuffixOp ==
    \E symbol \in GroupSymbols :
        GroupCall("add", "suffix", symbol,
                  add_unary_suffix_op(CurrentConfig, symbol))

RemoveGroupSuffixOp ==
    \E symbol \in GroupSymbols :
        GroupCall("remove", "suffix", symbol,
                  remove_unary_suffix_op(CurrentConfig, symbol))

AddGroupBinaryOp ==
    \E symbol \in GroupSymbols, assoc \in AnyAssociativity :
        GroupCall("add", "binary", symbol,
                  add_binary_op(CurrentConfig, symbol, assoc))

RemoveGroupBinaryOp ==
    \E symbol \in GroupSymbols :
        GroupCall("remove", "binary", symbol,
                  remove_binary_op(CurrentConfig, symbol))

GroupNext ==
    \/ AddPrefixOp
    \/ RemoveGroupPrefixOp
    \/ AddSuffixOp
    \/ RemoveGroupSuffixOp
    \/ AddGroupBinaryOp
    \/ RemoveGroupBinaryOp

SpecGroups == GroupInit /\ [][GroupNext]_vars

---------------------------------------------------------------------------
(* The state machine of precedence assignment: the calls of                *)
(* assign_precedence, with their arguments kept, among the other mutating  *)
(* operations of a Config, from the default Config.                        *)

\* Symbols the calls are made with: "^" is alone in its row (row 1), "<<"
\* shares row 0, "+++" is not registered by the default Config.
AssignSymbols == {<<"^">>, <<"<", "<">>, <<"+", "+", "+">>}

\* Row arguments: the first rows (before, at and after the row of "^"),
\* and around the number of rows.
AssignArgs ==
    {0, 1, 2} \cup {Len(binary_op_precedence) + d : d \in {-1, 0, 1}}

AssignInit ==
    /\ StartConfig(DefaultConfig)
    /\ expression = NoExpression
    /\ effects = <<>>
    /\ contexts = <<>>
    /\ outcome = [op |-> "config", err |-> "none"]
    /\ steps = 0

\* A call of a mutating operation other than assign_precedence.
AssignOther(op, symbol, result) ==
    /\ steps < MaxConfigOps
    /\ steps' = steps + 1
    /\ SetConfig(result.cfg)
    /\ outcome' = [op |-> op, err |-> result.err, symbol |-> symbol,
                   before |-> CurrentConfig]
    /\ UNCHANGED <<expression, effects, contexts>>

\* A call of assign_precedence: precedence is the row the four-argument
\* function was entered with, before is the Config the call was made on.
AssignCall(symbol, precedence, insert_row, override, result) ==
    /\ steps < MaxConfigOps
    /\ steps' = steps + 1
    /\ SetConfig(result.cfg)
    /\ outcome' = [op |-> "assign_precedence", err |-> result.err,
                   symbol |-> symbol, precedence |-> precedence,
                   insert_row |-> insert_row, override |-> override,
                   before |-> CurrentConfig]
    /\ UNCHANGED <<expression, effects, contexts>>

AssignAddOp ==
    \E symbol \in AssignSymbols, assoc \in Associativities :
        AssignOther("add_binary_op", symbol,
                    add_binary_op(CurrentConfig, symbol, assoc))

AssignRemoveOp ==
    \E symbol \in AssignSymbols :
        AssignOther("remove_binary_op", symbol,
                    remove_binary_op(CurrentConfig, symbol))

AssignRow ==
    \E symbol \in AssignSymbols, precedence \in AssignArgs,
       insert_row \in BOOLEAN, override \in BOOLEAN :
        AssignCall(symbol, precedence, insert_row, override,
                   assign_precedence(CurrentConfig, symbol, precedence,
                                     insert_row, override))

\* binary_op_precedence.size() - !insert_row, as in assign_precedence_lowest
AssignLowestRow ==
    \E symbol \in AssignSymbols, insert_row \in BOOLEAN, override \in BOOLEAN :
        LET size == Len(binary_op_precedence)
            precedence == IF insert_row THEN size
                          ELSE IF size = 0 THEN NPos ELSE size - 1
        IN  AssignCall(symbol, precedence, insert_row, override,
                       assign_precedence_lowest(CurrentConfig, symbol,
                                                insert_row, override))

AssignUnassign ==
    \E symbol \in AssignSymbols :
        AssignOther("unassign_precedence", symbol,
                    unassign_precedence(CurrentConfig, symbol))

AssignNext ==
    \/ AssignAddOp
    \/ AssignRemoveOp
    \/ AssignRow
    \/ AssignLowestRow
    \/ AssignUnassign

SpecAssign == AssignInit /\ [][AssignNext]_vars

---------------------------------------------------------------------------
(* The state machine of parsing under a customised Config: the host adds   *)
(* one binary operator to the default Config, gives it a row, and parses   *)
(* expressions.                                                            *)

CustomSymbol == <<"+", "+", "+">>

\* Operators the parsed codes combine: the custom one, and default ones of
\* the first row, of a middle row, of the last row, left and right.
ParseSymbols ==
    {CustomSymbol, <<"<", "<">>, <<"*", "*">>, <<"?", "?">>, <<"+">>,
     <<"|", "|">>}

\* The operands a, b, c: numbers; a variable, a call, a parenthesis; a
\* prefix and a suffix operator.
OperandTriples ==
    {<< <<"1">>, <<"2">>, <<"3">> >>,
     << <<"x">>, <<"f", "(", "2", ")">>, <<"(", "3", ")">> >>,
     << <<"-", "1">>, <<"2", "!">>, <<"3">> >>}

\* a o1 b o2 c
Flat(t, o1, o2) == Binary(Binary(t[1], o1, t[2]), o2, t[3])

\* (a o1 b) o2 c
GroupLeft(t, o1, o2) == Binary(Paren(Binary(t[1], o1, t[2])), o2, t[3])

\* a o1 (b o2 c)
GroupRight(t, o1, o2) == Binary(t[1], o1, Paren(Binary(t[2], o2, t[3])))

ParseCodes ==
    {Flat(t, o1, o2) : t \in OperandTriples, o1 \in ParseSymbols,
                       o2 \in ParseSymbols}

ParseInit ==
    /\ StartConfig(DefaultConfig)
    /\ expression = NoExpression
    /\ effects = <<>>
    /\ contexts = <<>>
    /\ outcome = [op |-> "config", err |-> "none"]
    /\ steps = 0

\* Rows the custom operator is assigned to: the first, a middle one, and
\* the number of rows (a new lowest row, or out of range).
CustomRows == {0, Len(binary_op_precedence) \div 2, Len(binary_op_precedence)}

\* cfg->add_binary_op({ "+++", assoc, ... })
AddCustomOp ==
    /\ expression = NoExpression
    /\ ~binary_op_exists(CurrentConfig, CustomSymbol)
    /\ UNCHANGED <<steps, contexts>>
    /\ \E assoc \in Associativities :
        ConfigCall("add_binary_op", CustomSymbol,
                   add_binary_op(CurrentConfig, CustomSymbol, assoc))

\* cfg->assign_precedence("+++", precedence, insert_row, override)
AssignCustomOp ==
    /\ expression = NoExpression
    /\ binary_op_exists(CurrentConfig, CustomSymbol)
    /\ UNCHANGED <<steps, contexts>>
    /\ \E precedence \in CustomRows,
          insert_row \in BOOLEAN, override \in BOOLEAN :
        ConfigCall("assign_precedence", CustomSymbol,
                   assign_precedence(CurrentConfig, CustomSymbol, precedence,
                                     insert_row, override))

\* expression(code, cfg).parse()
ParseCall(e) ==
    LET call == expression_parse(e, CurrentConfig)
    IN  /\ expression' = call.e
        /\ outcome' = [op |-> "parse", err |-> call.result.err,
                       result |-> call.result]
        /\ UNCHANGED <<cfg_vars, effects, steps, contexts>>

ConstructAndParse ==
    /\ expression = NoExpression
    /\ binary_op_exists(CurrentConfig, CustomSymbol)
    /\ \E code \in ParseCodes : ParseCall(Expression(code, Null))

ParseNext ==
    \/ AddCustomOp
    \/ AssignCustomOp
    \/ ConstructAndParse

SpecParse == ParseInit /\ [][ParseNext]_vars

---------------------------------------------------------------------------
(* The state machine of parsing conditionals (SpecTernary): the host adds  *)
(* one binary operator to the default Config, gives it a row, and parses   *)
(* codes with `?` and `:`.                                                 *)

\* The operands a, b, c, d, e: numbers; a variable, a call, a parenthesis;
\* prefix and suffix operators.
OperandQuintuples ==
    {<< <<"1">>, <<"2">>, <<"3">>, <<"4">>, <<"5">> >>,
     << <<"x">>, <<"f", "(", "2", ")">>, <<"(", "3", ")">>, <<"y">>, <<"5">> >>,
     << <<"-", "1">>, <<"2", "!">>, <<"3">>, <<"-", "4">>, <<"5", "!">> >>}

\* The symbols of the default binary operators and the custom one.
TernarySymbols ==
    {DefaultBinaryOperators[i].symbol : i \in DOMAIN DefaultBinaryOperators}
    \cup {CustomSymbol}

\* c ? a : b
Ternary(c, a, b) == c \o <<" ", "?", " ">> \o a \o <<" ", ":", " ">> \o b

\* a ? b : c ? d : e
ElseNested(q) == Ternary(q[1], q[2], Ternary(q[3], q[4], q[5]))

\* a ? b ? c : d : e
ThenNested(q) == Ternary(q[1], Ternary(q[2], q[3], q[4]), q[5])

\* a op b ? c : d op e
Operated(q, op) == Ternary(Binary(q[1], op, q[2]), q[3], Binary(q[4], op, q[5]))

TernaryCodes ==
    {ElseNested(q) : q \in OperandQuintuples}
    \cup {ThenNested(q) : q \in OperandQuintuples}
    \cup {Operated(q, op) : q \in OperandQuintuples, op \in TernarySymbols}

ConstructAndParseTernary ==
    /\ expression = NoExpression
    /\ binary_op_exists(CurrentConfig, CustomSymbol)
    /\ \E code \in TernaryCodes : ParseCall(Expression(code, Null))

TernaryNext ==
    \/ AddCustomOp
    \/ AssignCustomOp
    \/ ConstructAndParseTernary

SpecTernary == ParseInit /\ [][TernaryNext]_vars

---------------------------------------------------------------------------
(* The state machine of evaluation: the host of the test "Configuration    *)
(* changed after parsing" adds a prefix, a suffix and a binary operator to *)
(* the default Config, parses an expression, removes operators, and        *)
(* evaluates the cached tree.                                              *)

CustomPrefix == <<"+", "+">>

CustomSuffix == <<"-", "-">>

\* add_unary_prefix_op("++"), add_unary_suffix_op("--"),
\* add_binary_op("+++", right), assign_precedence("+++", 0)
EvalConfig ==
    LET prefixed == add_unary_prefix_op(DefaultConfig, CustomPrefix).cfg
        suffixed == add_unary_suffix_op(prefixed, CustomSuffix).cfg
        added    == add_binary_op(suffixed, CustomSymbol, "right").cfg
    IN  assign_precedence(added, CustomSymbol, 0, FALSE, FALSE).cfg

\* The context of the expression: x is its own variable, z and the
\* function add come from its parent.
EvalContext ==
    Context([n \in {<<"x">>} |-> 2], <<>>,
            <<Context([n \in {<<"z">>} |-> 1],
                      [n \in {<<"a", "d", "d">>} |-> "add"], <<>>)>>)

\* Operand texts: constants, a bound and an unbound variable, calls of add
\* (a callable with a log entry) returning 1 and 0, a division by zero, the
\* custom prefix and suffix operators, and a call of an unregistered
\* function.
Atoms ==
    {<<"0">>, <<"1">>, <<"x">>, <<"y">>,
     <<"a", "d", "d", "(", "1", ",", "0", ")">>,
     <<"a", "d", "d", "(", "0", ",", "0", ")">>,
     <<"1", "/", "0">>,
     <<"+", "+", "1">>,
     <<"1", "-", "-">>,
     <<"g", "(", "1", ")">>}

EvalSymbols == {<<"&", "&">>, <<"|", "|">>, <<"?", "?">>, CustomSymbol}

Conditions == {<<"0">>, <<"1">>, <<"y">>,
               <<"a", "d", "d", "(", "0", ",", "0", ")">>}

FunctionNames == {<<"a", "d", "d">>, <<"g">>}

\* (a) op (b)
BinaryCode(a, op, b) == Binary(Paren(a), op, Paren(b))

\* (c) ? (a) : (b)
ConditionalCode(c, a, b) ==
    Paren(c) \o <<" ", "?", " ">> \o Paren(a) \o <<" ", ":", " ">> \o Paren(b)

\* f((a), (b))
CallCode(f, a, b) ==
    f \o <<"(">> \o Paren(a) \o <<",", " ">> \o Paren(b) \o <<")">>

EvalCodes ==
    Atoms
    \cup {BinaryCode(a, op, b) : a \in Atoms, op \in EvalSymbols, b \in Atoms}
    \cup {ConditionalCode(c, a, b) : c \in Conditions, a \in Atoms, b \in Atoms}
    \cup {CallCode(f, a, b) : f \in FunctionNames, a \in Atoms, b \in Atoms}

EvalInit ==
    /\ StartConfig(EvalConfig)
    /\ expression = NoExpression
    /\ effects = <<>>
    /\ contexts = <<>>
    /\ outcome = [op |-> "config", err |-> "none"]
    /\ steps = 0

\* expression(code, cfg, ctx).parse()
ParseExpression ==
    /\ expression = NoExpression
    /\ \E code \in EvalCodes : ParseCall(Expression(code, EvalContext))

\* cfg->remove_unary_prefix_op("++")
RemovePrefixOp ==
    /\ expression.ast # Null
    /\ UNCHANGED <<steps, contexts>>
    /\ ConfigCall("remove_unary_prefix_op", CustomPrefix,
                  remove_unary_prefix_op(CurrentConfig, CustomPrefix))

\* cfg->remove_unary_suffix_op("--")
RemoveSuffixOp ==
    /\ expression.ast # Null
    /\ UNCHANGED <<steps, contexts>>
    /\ ConfigCall("remove_unary_suffix_op", CustomSuffix,
                  remove_unary_suffix_op(CurrentConfig, CustomSuffix))

\* cfg->remove_binary_op("+++")
RemoveCustomOp ==
    /\ expression.ast # Null
    /\ UNCHANGED <<steps, contexts>>
    /\ ConfigCall("remove_binary_op", CustomSymbol,
                  remove_binary_op(CurrentConfig, CustomSymbol))

\* expression.evaluate() on a parsed expression.  before is the expression
\* the call was made on; effects is what the callables were invoked with.
Evaluate ==
    /\ expression.ast # Null
    /\ LET call == expression_evaluate(expression, CurrentConfig)
       IN  /\ expression' = call.e
           /\ effects' = call.result.log
           /\ outcome' = [op |-> "evaluate", err |-> call.result.err,
                          result |-> call.result, before |-> expression]
    /\ UNCHANGED <<cfg_vars, steps, contexts>>

EvalNext ==
    \/ ParseExpression
    \/ RemovePrefixOp
    \/ RemoveSuffixOp
    \/ RemoveCustomOp
    \/ Evaluate

SpecEval == EvalInit /\ [][EvalNext]_vars

---------------------------------------------------------------------------
(* The state machine of tokenizing: the host constructs an expression over *)
(* a text, tokenizes it and parses the tokens under the default Config.    *)

\* Longest text tokenized and parsed.
MaxTextLen == 4

\* Characters of the texts: a digit, the two number separators, the decimal
\* point, an identifier character, two operator characters (each a prefix
\* and a binary operator of the default Config), a punctuation character,
\* a space and a character of no class.
TextChars == {"1", "'", "_", ".", "a", "+", "-", "(", " ", "#"}

\* Every text of these characters up to the longest, and the text `1+-2`.
Texts ==
    UNION {[1 .. n -> TextChars] : n \in 1 .. MaxTextLen}
        \cup {<<"1", "+", "-", "2">>}

TextInit ==
    /\ StartConfig(DefaultConfig)
    /\ expression = NoExpression
    /\ effects = <<>>
    /\ contexts = <<>>
    /\ outcome = [op |-> "config", err |-> "none"]
    /\ steps = 0

\* fluxins::expression(text, cfg, ctx)
ConstructText ==
    /\ outcome.op = "config"
    /\ \E text \in Texts : expression' = Expression(text, Null)
    /\ outcome' = [op |-> "construct", err |-> "none"]
    /\ UNCHANGED <<cfg_vars, effects, steps, contexts>>

\* tokens = fluxins::tokenize(expr), the first statement of
\* expression::parse; a tokenizer_error leaves tokens as they were.
Tokenize ==
    /\ outcome.op = "construct"
    /\ LET tokenized == tokenize(expression.expr)
       IN  /\ expression' = IF tokenized.err = "none"
                            THEN [expression EXCEPT !.tokens = tokenized.tokens]
                            ELSE expression
           /\ outcome' = [op |-> "tokenize", err |-> tokenized.err,
                          result |-> tokenized]
    /\ UNCHANGED <<cfg_vars, effects, steps, contexts>>

\* ast = fluxins::parse(expr, tokens, cfg), the second statement of
\* expression::parse.
ParseTokens ==
    /\ outcome.op = "tokenize"
    /\ outcome.err = "none"
    /\ LET parsed == parse(expression.tokens, CurrentConfig)
       IN  /\ expression' = IF parsed.err = "none"
                            THEN [expression EXCEPT !.ast = parsed.node]
                            ELSE expression
           /\ outcome' = [op |-> "parse", err |-> parsed.err,
                          result |-> parsed]
    /\ UNCHANGED <<cfg_vars, effects, steps, contexts>>

TextNext ==
    \/ ConstructText
    \/ Tokenize
    \/ ParseTokens

SpecTokenize == TextInit /\ [][TextNext]_vars

---------------------------------------------------------------------------
(* The state machine of parsing token streams (SpecSyntax): the host       *)
(* constructs an expression from words separated by blanks, well formed or *)
(* not, and parses it under the default Config.                            *)

\* Most words of a code.
MaxWords == 4

\* The words: operands, a function name, an operator that is prefix and
\* binary, and the punctuation and symbols of calls, parentheses and
\* conditionals.
SyntaxWords ==
    {<<"1">>, <<"x">>, <<"f">>, <<"+">>, <<"(">>, <<")">>, <<"?">>, <<":">>,
     <<",">>}

RECURSIVE JoinWords(_)
\* the words with a blank between them
JoinWords(words) ==
    IF words = <<>> THEN <<>>
    ELSE IF Len(words) = 1 THEN words[1]
    ELSE words[1] \o Sp \o JoinWords(Tail(words))

\* A number of forty digits, beyond the range of float.
HugeNumber == [i \in 1 .. Len(FloatOverflow) + 1 |-> IF i = 1 THEN "1" ELSE "0"]

SyntaxCodes ==
    {JoinWords(words) :
        words \in UNION {[1 .. n -> SyntaxWords] : n \in 0 .. MaxWords}}
    \cup {HugeNumber, JoinWords(<<HugeNumber, <<"+">>, <<"1">> >>)}

\* fluxins::expression(code, cfg)
ConstructCode ==
    /\ outcome.op = "config"
    /\ \E code \in SyntaxCodes : expression' = Expression(code, Null)
    /\ outcome' = [op |-> "construct", err |-> "none"]
    /\ UNCHANGED <<cfg_vars, effects, steps, contexts>>

SyntaxNext ==
    \/ ConstructCode
    \/ Tokenize
    \/ ParseTokens

SpecSyntax == TextInit /\ [][SyntaxNext]_vars

---------------------------------------------------------------------------
(* Blank codes (SpecBlank): the host removes operators from a Config,      *)
(* constructs an expression over an empty, a blank or another short code,  *)
(* and tokenizes, parses and evaluates it.                                 *)

\* Longest code of SpecBlank.
MaxBlankLen == 3

\* Characters of the codes: three whitespace characters, a digit and an
\* operator character.
BlankChars == {" ", "\t", "\n", "1", "+"}

\* The empty code and every code of these characters up to the longest.
BlankCodes == UNION {[1 .. n -> BlankChars] : n \in 0 .. MaxBlankLen}

\* A Config without any operator.
EmptyConfig == Config(<<>>, <<>>, <<>>, <<>>)

\* The Configs the host starts from.
BlankConfigs == {DefaultConfig, EvalConfig, EmptyConfig}

BlankInit ==
    /\ \E cfg \in BlankConfigs : StartConfig(cfg)
    /\ expression = NoExpression
    /\ effects = <<>>
    /\ contexts = <<>>
    /\ outcome = [op |-> "config", err |-> "none"]
    /\ steps = 0

\* A remove_* call on the Config before the expression is constructed.
RemoveBefore(result) ==
    /\ outcome.op = "config"
    /\ steps < MaxConfigOps
    /\ steps' = steps + 1
    /\ SetConfig(result.cfg)
    /\ UNCHANGED <<expression, effects, contexts, outcome>>

\* cfg->remove_unary_prefix_op(symbol)
RemovePrefixBefore ==
    \E symbol \in GroupSymbols :
        RemoveBefore(remove_unary_prefix_op(CurrentConfig, symbol))

\* cfg->remove_unary_suffix_op(symbol)
RemoveSuffixBefore ==
    \E symbol \in GroupSymbols :
        RemoveBefore(remove_unary_suffix_op(CurrentConfig, symbol))

\* cfg->remove_binary_op(symbol)
RemoveBinaryBefore ==
    \E symbol \in GroupSymbols :
        RemoveBefore(remove_binary_op(CurrentConfig, symbol))

\* fluxins::expression(code, cfg)
ConstructBlank ==
    /\ outcome.op = "config"
    /\ \E code \in BlankCodes : expression' = Expression(code, Null)
    /\ outcome' = [op |-> "construct", err |-> "none"]
    /\ UNCHANGED <<cfg_vars, effects, steps, contexts>>

\* expression.evaluate() after the parse
EvaluateParsed ==
    /\ outcome.op = "parse"
    /\ Evaluate

BlankNext ==
    \/ RemovePrefixBefore
    \/ RemoveSuffixBefore
    \/ RemoveBinaryBefore
    \/ ConstructBlank
    \/ Tokenize
    \/ ParseTokens
    \/ EvaluateParsed

SpecBlank == BlankInit /\ [][BlankNext]_vars

---------------------------------------------------------------------------
(* One symbol in several groups (SpecPosition): the host adds and removes  *)
(* prefix and suffix operators of symbols that the Config may also hold in *)
(* another group, then parses a code that has the symbol before an         *)
(* operand, between two operands or after an operand.                      *)

\* The Configs the host starts from: in the second one `++` is a prefix,
\* `--` a suffix and `+++` a binary operator of the first row.
PositionConfigs == {DefaultConfig, EvalConfig}

PositionInit ==
    /\ \E cfg \in PositionConfigs : StartConfig(cfg)
    /\ expression = NoExpression
    /\ effects = <<>>
    /\ contexts = <<>>
    /\ outcome = [op |-> "config", err |-> "none"]
    /\ steps = 0

\* The operands a and b.
OperandA == <<"1">>

OperandB == <<"2">>

\* sym a
PrefixCode(sym) == sym \o Sp \o OperandA

\* a sym
SuffixCode(sym) == OperandA \o Sp \o sym

\* a sym b
InfixCode(sym) == Binary(OperandA, sym, OperandB)

PositionCodes ==
    UNION {{PrefixCode(sym), SuffixCode(sym), InfixCode(sym),
            InfixCode(sym \o Sp \o sym)} : sym \in GroupSymbols}

\* expression(code, cfg).parse()
ConstructAndParsePosition ==
    /\ expression = NoExpression
    /\ \E code \in PositionCodes : ParseCall(Expression(code, Null))

PositionNext ==
    \/ AddPrefixOp
    \/ RemoveGroupPrefixOp
    \/ AddSuffixOp
    \/ RemoveGroupSuffixOp
    \/ ConstructAndParsePosition

SpecPosition == PositionInit /\ [][PositionNext]_vars

---------------------------------------------------------------------------
(* Contexts shared by reference (SpecContext): the host holds             *)
(* std::shared_ptr<context> objects, changes them with set_variable,      *)
(* set_function and inherit_context, and resolves names in them.  A       *)
(* pointer is the position of the object in contexts.                     *)

\* Most changes of the context objects the host makes.
MaxContextOps == 3

ContextNames == {<<"x">>}

Fields == {"variables", "functions"}

Pointers == 1..Len(contexts)

\* The value the host binds in context c: each context binds its own.
BindingOf(c, field) == IF field = "variables" THEN c ELSE <<"f", c>>

\* A call that recurses without end does not return.
NoReturn == [found |-> FALSE, endless |-> TRUE]

Returned(resolved) == "endless" \notin DOMAIN resolved

RECURSIVE resolve_shared(_, _, _, _, _), resolve_shared_parents(_, _, _, _, _, _)

\* The loop over parents if it looked at the own bindings of all parents
\* before it descended into the chain of any of them.
resolve_shared_parents_nearest(heap, ptr, name, field, i, active) ==
    LET parents == heap[ptr].parents
        near == {j \in Indices(parents) :
                    j >= i /\ name \in DOMAIN heap[At(parents, j)][field]}
        resolved == resolve_shared(heap, At(parents, i), name, field, active)
    IN  IF i >= Len(parents) THEN Nullopt
        ELSE IF near # {}
        THEN Resolved(heap[At(parents, FirstIndex(parents, near))][field][name])
        ELSE IF ~Returned(resolved) \/ resolved.found THEN resolved
        ELSE resolve_shared_parents(heap, ptr, name, field, i + 1, active)

\* The loop over parents of context::resolve_variable and
\* context::resolve_function on the object ptr, from parent i on.  active
\* holds the objects whose resolve call is on the call stack: a call on
\* one of them repeats the calls that led to it.
resolve_shared_parents(heap, ptr, name, field, i, active) ==
    IF i >= Len(heap[ptr].parents) THEN Nullopt
    ELSE LET resolved == resolve_shared(heap, At(heap[ptr].parents, i),
                                        name, field, active)
         IN  IF ~Returned(resolved) \/ resolved.found THEN resolved
             ELSE resolve_shared_parents(heap, ptr, name, field, i + 1,
                                         active)

\* ptr->resolve_variable(name) (field "variables") and
\* ptr->resolve_function(name) (field "functions").
resolve_shared(heap, ptr, name, field, active) ==
    IF name \in DOMAIN heap[ptr][field]
    THEN Resolved(heap[ptr][field][name])
    ELSE IF ptr \in active THEN NoReturn
    ELSE resolve_shared_parents(heap, ptr, name, field, 0,
                                active \cup {ptr})

\* variables[name] = variable
set_variable(ctx, name, variable) ==
    [ctx EXCEPT !.variables =
        [n \in DOMAIN ctx.variables \cup {name} |->
            IF n = name THEN variable ELSE ctx.variables[n]]]

\* functions[name] = function
set_function(ctx, name, function) ==
    [ctx EXCEPT !.functions =
        [n \in DOMAIN ctx.functions \cup {name} |->
            IF n = name THEN function ELSE ctx.functions[n]]]

\* parents.emplace_back(parent)
inherit_context(ctx, parent) ==
    [ctx EXCEPT !.parents = Append(ctx.parents, parent)]

\* Four objects from std::make_shared<context>(), not linked.
Unlinked == <<EmptyContext, EmptyContext, EmptyContext, EmptyContext>>

\* The objects of the test "Deep inheritance": the context of the
\* expression inherits child_ctx, that parent_ctx, that grandparent_ctx.
DeepInheritance ==
    <<inherit_context(EmptyContext, 2), inherit_context(EmptyContext, 3),
      inherit_context(EmptyContext, 4), EmptyContext>>

ContextInit ==
    /\ StartConfig(DefaultConfig)
    /\ expression = NoExpression
    /\ effects = <<>>
    /\ contexts \in {Unlinked, DeepInheritance}
    /\ outcome = [op |-> "config", err |-> "none"]
    /\ steps = 0

\* A call that changes the object ptr.
ContextCall(op, ptr, changed) ==
    /\ steps < MaxContextOps
    /\ steps' = steps + 1
    /\ contexts' = [contexts EXCEPT ![ptr] = changed]
    /\ outcome' = [op |-> op, err |-> "none"]
    /\ UNCHANGED <<cfg_vars, expression, effects>>

SetVariable ==
    \E ptr \in Pointers, name \in ContextNames :
        ContextCall("set_variable", ptr,
                    set_variable(contexts[ptr], name,
                                 BindingOf(ptr, "variables")))

SetFunction ==
    \E ptr \in Pointers, name \in ContextNames :
        ContextCall("set_function", ptr,
                    set_function(contexts[ptr], name,
                                 BindingOf(ptr, "functions")))

InheritContext ==
    \E ptr \in Pointers, parent \in Pointers :
        ContextCall("inherit_context", ptr,
                    inherit_context(contexts[ptr], parent))

\* ptr->resolve_variable(name) or ptr->resolve_function(name)
ContextResolve(op, ptr, name, field) ==
    LET resolved == resolve_shared(contexts, ptr, name, field, {})
    IN  /\ outcome' = [op |-> op,
                       err |-> IF Returned(resolved) THEN "none"
                               ELSE "no_return",
                       ctx |-> ptr, name |-> name, field |-> field,
                       result |-> resolved]
        /\ UNCHANGED <<cfg_vars, expression, effects, contexts, steps>>

ResolveVariable ==
    \E ptr \in Pointers, name \in ContextNames :
        ContextResolve("resolve_variable", ptr, name, "variables")

ResolveFunction ==
    \E ptr \in Pointers, name \in ContextNames :
        ContextResolve("resolve_function", ptr, name, "functions")

ContextNext ==
    \/ SetVariable
    \/ SetFunction
    \/ InheritContext
    \/ ResolveVariable
    \/ ResolveFunction

SpecContext == ContextInit /\ [][ContextNext]_vars

---------------------------------------------------------------------------
(* The caches of the expression (SpecValue): the host constructs an        *)
(* expression, changes its code, its Config and its context, and calls     *)
(* parse(), evaluate() and get_value().                                    *)

\* The evaluate() of get_value() on the expression e that parse() left
\* behind: [e, result, log].
get_value_evaluate(e, cfg) ==
    CHOOSE call \in
        {IF evaluated.result.err # "none"
         THEN [e |-> evaluated.e, result |-> evaluated.result,
               log |-> evaluated.result.log]
         ELSE [e |-> evaluated.e, result |-> Returns(evaluated.e.value),
               log |-> evaluated.result.log] :
            evaluated \in {expression_evaluate(e, cfg)}} : TRUE

\* The parse() and evaluate() of get_value(); evaluate() is not reached
\* when parse() throws.
get_value_parse(e, cfg) ==
    CHOOSE call \in
        {IF parsed.result.err # "none"
         THEN [e |-> parsed.e, result |-> parsed.result, log |-> <<>>]
         ELSE get_value_evaluate(parsed.e, cfg) :
            parsed \in {expression_parse(e, cfg)}} : TRUE

\* get_value() if it parsed and evaluated on every call.
expression_get_value_uncached(e, cfg) == get_value_parse(e, cfg)

\* expression::get_value(): if (!ast) { parse(); evaluate(); } return value;
\* [e, result, log]: the expression left behind, the value returned or the
\* error thrown, and the invocations of callables.
expression_get_value(e, cfg) ==
    IF e.ast # Null
    THEN [e |-> e, result |-> Returns(e.value), log |-> <<>>]
    ELSE get_value_parse(e, cfg)

\* expression::set_variable: creates the context if it is absent.
expression_set_variable(e, name, variable) ==
    [e EXCEPT !.ctx = set_variable(IF e.ctx = Null THEN EmptyContext
                                   ELSE e.ctx, name, variable)]

\* Codes of the expression: the empty code, a number, a variable, the
\* prefix operator the host adds and removes applied to a variable, a code
\* with a missing operand and a code with an invalid character.
ValueCodes ==
    {<<>>, <<"2">>, <<"x">>, <<"+", "+", "x">>, <<"x", "+">>, <<"#">>}

ValueNames == {<<"x">>}

VariableValues == {1, 2}

ValueInit ==
    /\ StartConfig(DefaultConfig)
    /\ expression = NoExpression
    /\ effects = <<>>
    /\ contexts = <<>>
    /\ outcome = [op |-> "config", err |-> "none"]
    /\ steps = 0

\* The process is running: no call has dereferenced a null pointer.
Running == outcome.err # "null_dereference"

\* What a call left behind: before is the expression it was made on.
ValueCall(op, e, result, log) ==
    /\ expression' = e
    /\ effects' = log
    /\ outcome' = [op |-> op, err |-> result.err, result |-> result,
                   before |-> expression]
    /\ UNCHANGED <<steps, contexts>>

\* fluxins::expression(code, cfg) and fluxins::expression(code, cfg, ctx)
ConstructExpression ==
    /\ expression = NoExpression
    /\ outcome.op = "config"
    /\ \E code \in ValueCodes, ctx \in {Null, EmptyContext} :
          ValueCall("construct", Expression(code, ctx), Returns(0), <<>>)
    /\ UNCHANGED cfg_vars

Constructed == outcome.op # "config" /\ Running

\* my_expression.expr = code
AssignCode ==
    /\ Constructed
    /\ \E code \in ValueCodes :
          /\ code # expression.expr
          /\ ValueCall("assign_code", [expression EXCEPT !.expr = code],
                       Returns(0), <<>>)
    /\ UNCHANGED cfg_vars

\* my_expression.set_variable(name, value)
SetExpressionVariable ==
    /\ Constructed
    /\ \E name \in ValueNames, variable \in VariableValues :
          ValueCall("set_variable",
                    expression_set_variable(expression, name, variable),
                    Returns(0), <<>>)
    /\ UNCHANGED cfg_vars

\* cfg->add_unary_prefix_op("++") on the shared Config
AddCustomPrefix ==
    /\ Constructed
    /\ LET call == add_unary_prefix_op(CurrentConfig, CustomPrefix)
       IN  /\ SetConfig(call.cfg)
           /\ ValueCall("add_unary_prefix_op", expression, call, <<>>)

\* cfg->remove_unary_prefix_op("++") on the shared Config
RemoveCustomPrefix ==
    /\ Constructed
    /\ LET call == remove_unary_prefix_op(CurrentConfig, CustomPrefix)
       IN  /\ SetConfig(call.cfg)
           /\ ValueCall("remove_unary_prefix_op", expression, call, <<>>)

\* my_expression.parse()
ExplicitParse ==
    /\ Constructed
    /\ \E call \in {expression_parse(expression, CurrentConfig)} :
          ValueCall("parse", call.e, call.result, <<>>)
    /\ UNCHANGED cfg_vars

\* my_expression.evaluate(): ast->evaluate(...) on a null ast dereferences
\* a null pointer, and the process stops.
ExplicitEvaluate ==
    /\ Constructed
    /\ IF expression.ast = Null
       THEN ValueCall("evaluate", expression,
                      [err |-> "null_dereference"], <<>>)
       ELSE \E call \in {expression_evaluate(expression, CurrentConfig)} :
               ValueCall("evaluate", call.e, call.result, call.result.log)
    /\ UNCHANGED cfg_vars

\* my_expression.get_value()
GetValue ==
    /\ Constructed
    /\ \E call \in {expression_get_value(expression, CurrentConfig)} :
          ValueCall("get_value", call.e, call.result, call.log)
    /\ UNCHANGED cfg_vars

ValueNext ==
    \/ ConstructExpression
    \/ AssignCode
    \/ SetExpressionVariable
    \/ AddCustomPrefix
    \/ RemoveCustomPrefix
    \/ ExplicitParse
    \/ ExplicitEvaluate
    \/ GetValue

SpecValue == ValueInit /\ [][ValueNext]_vars

---------------------------------------------------------------------------
(* The wrapping modulo operator (SpecModulo): the callable of the default  *)
(* binary operator `%%` applied to two float operands.  A float is its     *)
(* sign, its integer part and whether it has a fraction: the callable      *)
(* compares the operand with 0.0f and truncates it to int, and reads       *)
(* nothing else of it.                                                     *)

\* Largest integer part of an operand.
MaxOperand == 3

Floats == [sign : {-1, 1}, whole : 0 .. MaxOperand, fraction : BOOLEAN]

\* f == 0.0f (also for -0.0f)
IsZero(f) == f.whole = 0 /\ ~f.fraction

\* (int) f: truncation towards zero
ToInt(f) == f.sign * f.whole

\* What a build can make of ix % 0, which is undefined: a trap (SIGFPE),
\* or any value.
RemainderByZero ==
    {[err |-> "signal", value |-> 0, undefined |-> TRUE]}
        \cup {[err |-> "none", value |-> v, undefined |-> TRUE] :
                 v \in -MaxOperand .. MaxOperand}

\* wrapping_modulo(x, y): the outcomes of
\* int r = (int) x % (int) y; if (r < 0) r += iy; return (float) r;
wrapping_modulo(x, y) ==
    LET ix == ToInt(x)
        iy == ToInt(y)
        r  == TruncRem(ix, iy)
    IN  IF iy = 0 THEN RemainderByZero
        ELSE {[err |-> "none", value |-> IF r < 0 THEN r + iy ELSE r,
               undefined |-> FALSE]}

\* The operate lambda of `%%`:
\* if (y == 0.0f) throw code_error("Wrapping modulo by zero", ...);
\* return wrapping_modulo(x, y);
wrapping_modulo_operate(x, y) ==
    IF IsZero(y)
    THEN {[err |-> "code_error", value |-> 0, undefined |-> FALSE]}
    ELSE wrapping_modulo(x, y)

ModuloInit ==
    /\ StartConfig(DefaultConfig)
    /\ expression = NoExpression
    /\ effects = <<>>
    /\ contexts = <<>>
    /\ \E x \in Floats, y \in Floats :
          outcome = [op |-> "operands", err |-> "none", x |-> x, y |-> y]
    /\ steps = 0

\* cfg->get_binary_op("%%").operate(expr, location, x, y)
WrappingModulo ==
    /\ outcome.op = "operands"
    /\ \E result \in wrapping_modulo_operate(outcome.x, outcome.y) :
          outcome' = [op |-> "%%", err |-> result.err, x |-> outcome.x,
                      y |-> outcome.y, result |-> result]
    /\ UNCHANGED <<cfg_vars, expression, effects, contexts, steps>>

ModuloNext == WrappingModulo

SpecModulo == ModuloInit /\ [][ModuloNext]_vars

---------------------------------------------------------------------------
(* Termination (SpecTerminate): tokenize one iteration of its loop at a    *)
(* time, and then the calls of the parse functions one nested call at a    *)
(* time: from the call that is running, a step enters any of the calls it  *)
(* makes, so that a behaviour is a chain of nested calls of the parser.    *)

\* Longest generated code of SpecTerminate.
MaxCodeLen == 3

\* Characters of the generated codes: a digit, an identifier character, an
\* operator that is prefix and binary, the parentheses, the conditional
\* symbol, a blank and a character of no class.
TerminateChars == {"1", "a", "+", "(", ")", "?", " ", "#"}

\* Codes that recurse deeper: nested calls and parentheses, nested
\* conditionals, prefix and suffix operators, left- and right-associative
\* operators of the first and of a later row.
DeepCodes ==
    {<<"a", "(", "1", ",", "(", "1", ")", ",", "a", "(", ")", ")">>,
     <<"1", "?", "1", ":", "1", "?", "1", ":", "1">>,
     <<"1", "?", "1", "?", "1", ":", "1", ":", "1">>,
     <<"-", " ", "-", " ", "1", " ", "!", " ", "!">>,
     <<"1", "+", "+", "+", "1", "+", "+", "+", "1">>,
     <<"1", "*", "*", "1", "*", "*", "1", "-", "1", "-", "1">>,
     <<"(", "(", "1", "+", "a", ")", ")", "*", "1">>,
     <<"1", "'", "1", ".", "1", ".", "1">>}

TerminateCodes ==
    UNION {[1 .. n -> TerminateChars] : n \in 0 .. MaxCodeLen} \cup DeepCodes

\* The Configs: the default operators with a prefix, a suffix and a
\* right-associative binary operator of the first row added, and a Config
\* without operators and rows.
TerminateConfigs == {EvalConfig, EmptyConfig}

\* One iteration of the while loop of tokenize at index, with the tokens
\* found so far: [err, index, tokens], the index and the tokens it leaves,
\* or the tokenizer_error it throws.
tokenize_iteration(text, index, tokens) ==
    LET c == At(text, index)
        number == NumberToken(text, index)
        Run(type, end) ==
            [err |-> "none", index |-> end,
             tokens |-> Append(tokens,
                            Token(type, Substr(text, index, end - index),
                                  Location(index, end - index)))]
        Raised(err) == [err |-> err, index |-> index, tokens |-> tokens]
    IN  IF c \in identifier_start
        THEN Run("identifier", RunEnd(text, index, identifier_continue))
        ELSE IF c \in number_start
        THEN IF number.err # "none"
             THEN Raised(number.err)
             ELSE [err |-> "none",
                   index |-> index + number.location.length,
                   tokens |-> Append(tokens, number.token)]
        ELSE IF c \in operator_chars
        THEN Run("symbol", RunEnd(text, index, operator_chars))
        ELSE IF c \in punctuation_chars
        THEN Run("punctuation", index + 1)
        ELSE IF c \in space_chars
        THEN [err |-> "none", index |-> index + 1, tokens |-> tokens]
        ELSE Raised("tokenizer_error")

\* A call of a parse function: its name, the cursor pos it is entered
\* with, and its row prec (0 for the functions that take none).
Frame(rule, pos, prec) == [rule |-> rule, pos |-> pos, prec |-> prec]

\* What the call frame of parse_primary or parse_binary_op returns:
\* [err, node, pos].
ResultOf(tokens, cfg, frame) ==
    parse_call(frame.rule, tokens, cfg, Null, frame.pos, frame.prec)

\* The calls parse_condition makes: its condition, and parse_all after `?`
\* and after `:`.
condition_calls(tokens, cfg, pos) ==
    LET size == Len(cfg.binary_op_precedence)
        HasValue(at, value) ==
            at < Len(tokens) /\ At(tokens, at).value = value
        AfterTrue(true_value) ==
            IF true_value.err = "none" /\ HasValue(true_value.pos, <<":">>)
            THEN {Frame("parse_all", true_value.pos + 1, 0)}
            ELSE {}
        AfterCondition(condition) ==
            IF /\ condition.err = "none"
               /\ HasValue(condition.pos, <<"?">>)
               /\ At(tokens, condition.pos).type = "symbol"
            THEN {Frame("parse_all", condition.pos + 1, 0)}
                 \cup UNION {AfterTrue(true_value) : true_value \in
                                {parse_all(tokens, cfg, condition.pos + 1)}}
            ELSE {}
    IN  IF size = 0
        THEN {Frame("parse_primary", pos, 0)}
             \cup UNION {AfterCondition(condition) : condition \in
                            {ResultOf(tokens, cfg,
                                      Frame("parse_primary", pos, 0))}}
        ELSE {Frame("parse_binary_op", pos, size - 1)}
             \cup UNION {AfterCondition(condition) : condition \in
                            {ResultOf(tokens, cfg,
                                      Frame("parse_binary_op", pos, size - 1))}}

RECURSIVE binary_loop_calls(_, _, _, _)
\* The calls of the loop of parse_binary_op from the cursor pos on: the
\* right operand of every operator of row prec that it matches.
binary_loop_calls(tokens, cfg, pos, prec) ==
    IF pos >= Len(tokens) THEN {}
    ELSE
    LET row == At(cfg.binary_op_precedence, prec)
        tok == At(tokens, pos)
        Matches(i) ==
            /\ i < Len(cfg.binary_operators)
            /\ tok.type = "symbol"
            /\ tok.value = At(cfg.binary_operators, i).symbol
        k == FirstIndex(row, {j \in Indices(row) : Matches(At(row, j))})
        level == right_operand_level(
                     prec, At(cfg.binary_operators, At(row, k)).assoc)
        Rest(right) ==
            IF right.err # "none" THEN {}
            ELSE binary_loop_calls(tokens, cfg, right.pos, prec)
    IN  IF k = NPos THEN {}
        ELSE IF level.primary
        THEN {Frame("parse_primary", pos + 1, 0)}
             \cup UNION {Rest(right) : right \in
                            {ResultOf(tokens, cfg,
                                      Frame("parse_primary", pos + 1, 0))}}
        ELSE {Frame("parse_binary_op", pos + 1, level.prec)}
             \cup UNION {Rest(right) : right \in
                            {ResultOf(tokens, cfg,
                                      Frame("parse_binary_op", pos + 1, level.prec))}}

\* The calls parse_binary_op makes: its left operand, and the right
\* operands of its loop.
binary_op_calls(tokens, cfg, pos, prec) ==
    LET Rest(left) ==
            IF left.err # "none" THEN {}
            ELSE binary_loop_calls(tokens, cfg, left.pos, prec)
    IN  IF prec = 0
        THEN {Frame("parse_primary", pos, 0)}
             \cup UNION {Rest(left) : left \in
                            {ResultOf(tokens, cfg,
                                      Frame("parse_primary", pos, 0))}}
        ELSE {Frame("parse_binary_op", pos, prec - 1)}
             \cup UNION {Rest(left) : left \in
                            {ResultOf(tokens, cfg,
                                      Frame("parse_binary_op", pos, prec - 1))}}

\* The call parse_primary makes: itself after a prefix operator, or the
\* function of the token's type.
primary_calls(tokens, cfg, pos) ==
    IF pos >= Len(tokens) THEN {}
    ELSE LET tok == At(tokens, pos)
         IN  IF /\ tok.type = "symbol"
                /\ Contains(cfg.unary_prefix_operators, tok.value)
             THEN {Frame("parse_primary", pos + 1, 0)}
             ELSE IF tok.type = "number"
             THEN {Frame("parse_number", pos, 0)}
             ELSE IF tok.type = "identifier"
             THEN {Frame("parse_identifier", pos, 0)}
             ELSE IF tok.type = "punctuation" /\ tok.value = <<"(">>
             THEN {Frame("parse_parenthesis", pos, 0)}
             ELSE {}

\* The call parse_identifier makes.
identifier_calls(tokens, cfg, pos) ==
    IF IsPunctuation(tokens, pos + 1, "(")
    THEN {Frame("parse_function", pos, 0)}
    ELSE {Frame("parse_variable", pos, 0)}

RECURSIVE argument_calls(_, _, _)
\* The calls of the argument loop of parse_function from the cursor pos
\* on: parse_all for every argument.
argument_calls(tokens, cfg, pos) ==
    LET Rest(arg) ==
            IF arg.err = "none" /\ IsPunctuation(tokens, arg.pos, ",")
            THEN argument_calls(tokens, cfg, arg.pos + 1)
            ELSE {}
    IN  {Frame("parse_all", pos, 0)}
        \cup UNION {Rest(arg) : arg \in {parse_all(tokens, cfg, pos)}}

\* The calls parse_function makes, after the name and the `(`.
function_calls(tokens, cfg, pos) ==
    IF ~IsPunctuation(tokens, pos + 1, "(") THEN {}
    ELSE IF IsPunctuation(tokens, pos + 2, ")") THEN {}
    ELSE argument_calls(tokens, cfg, pos + 2)

\* A variant of parenthesis_calls that does not consume the `(`.
parenthesis_calls_unconsumed(tokens, cfg, pos) ==
    IF ~IsPunctuation(tokens, pos, "(") THEN {}
    ELSE {Frame("parse_all", pos, 0)}

\* The call parse_parenthesis makes, after the `(`.
parenthesis_calls(tokens, cfg, pos) ==
    IF ~IsPunctuation(tokens, pos, "(") THEN {}
    ELSE {Frame("parse_all", pos + 1, 0)}

\* The calls that the call frame makes while it runs.
Calls(tokens, cfg, frame) ==
    CASE frame.rule = "parse_all" ->
            {Frame("parse_condition", frame.pos, 0)}
      [] frame.rule = "parse_condition" ->
            condition_calls(tokens, cfg, frame.pos)
      [] frame.rule = "parse_binary_op" ->
            binary_op_calls(tokens, cfg, frame.pos, frame.prec)
      [] frame.rule = "parse_primary" ->
            primary_calls(tokens, cfg, frame.pos)
      [] frame.rule = "parse_identifier" ->
            identifier_calls(tokens, cfg, frame.pos)
      [] frame.rule = "parse_function" ->
            function_calls(tokens, cfg, frame.pos)
      [] frame.rule = "parse_parenthesis" ->
            parenthesis_calls(tokens, cfg, frame.pos)
      [] frame.rule \in {"parse_number", "parse_variable"} -> {}

RECURSIVE CallTree(_, _, _, _)
\* The calls nested in the calls of frontier, and seen: every call that a
\* parse of the tokens makes.
CallTree(tokens, cfg, frontier, seen) ==
    IF frontier = {} THEN seen
    ELSE CHOOSE tree \in
             {CallTree(tokens, cfg, made \ seen, seen \cup made) :
                 made \in {UNION {Calls(tokens, cfg, frame) :
                                     frame \in frontier}}} : TRUE

\* The calls of a parse of the tokens as pairs [caller, callee].
CallPairs(tokens, cfg) ==
    LET first == Frame("parse_all", 0, 0)
        PairsOf(frames) ==
            UNION {{[caller |-> frame, callee |-> callee] :
                       callee \in Calls(tokens, cfg, frame)} :
                   frame \in frames}
    IN  IF tokens = <<>> THEN {}
        ELSE UNION {PairsOf(frames) : frames \in
                       {CallTree(tokens, cfg, {first}, {first})}}

\* The tokenizer is before its first iteration. The calls that the parser
\* makes on the code are laid out once, for the steps to follow.
TerminateInit ==
    /\ \E cfg \in TerminateConfigs : StartConfig(cfg)
    /\ \E code \in TerminateCodes :
          /\ expression = Expression(code, Null)
          /\ \E tokens \in {tokenize(code).tokens}, cfg \in {CurrentConfig} :
                outcome = [op |-> "tokenize", err |-> "none", index |-> 0,
                           tokens |-> <<>>,
                           calls |-> CallPairs(tokens, cfg)]
    /\ effects = <<>>
    /\ contexts = <<>>
    /\ steps = 0

\* One iteration of the loop of tokenize.
TokenizeIteration ==
    /\ outcome.op = "tokenize"
    /\ outcome.index < Len(expression.expr)
    /\ \E iteration \in {tokenize_iteration(expression.expr, outcome.index,
                                             outcome.tokens)} :
          outcome' = [outcome EXCEPT
                         !.op = IF iteration.err # "none"
                                THEN "raised" ELSE "tokenize",
                         !.err = iteration.err,
                         !.index = iteration.index,
                         !.tokens = iteration.tokens]
    /\ UNCHANGED <<cfg_vars, expression, effects, contexts, steps>>

\* The loop of tokenize ends and expression::parse stores the tokens.
TokenizeReturn ==
    /\ outcome.op = "tokenize"
    /\ outcome.index >= Len(expression.expr)
    /\ expression' = [expression EXCEPT !.tokens = outcome.tokens]
    /\ outcome' = [outcome EXCEPT !.op = "tokenized"]
    /\ UNCHANGED <<cfg_vars, effects, contexts, steps>>

\* fluxins::parse: returns the Number 0 for no tokens, calls parse_all at
\* the first token otherwise.
ParseEnter ==
    /\ outcome.op = "tokenized"
    /\ outcome' = IF expression.tokens = <<>>
                  THEN [op |-> "returned", err |-> "none"]
                  ELSE [op |-> "call", err |-> "none",
                        frame |-> Frame("parse_all", 0, 0),
                        calls |-> outcome.calls]
    /\ UNCHANGED <<cfg_vars, expression, effects, contexts, steps>>

\* The running call enters one of the calls it makes.
CallNested ==
    /\ outcome.op = "call"
    /\ \E call \in outcome.calls :
          /\ call.caller = outcome.frame
          /\ outcome' = [outcome EXCEPT !.frame = call.callee]
    /\ UNCHANGED <<cfg_vars, expression, effects, contexts, steps>>

TerminateNext ==
    \/ TokenizeIteration
    \/ TokenizeReturn
    \/ ParseEnter
    \/ CallNested

\* The one thread of the caller runs every iteration and every call it
\* has reached.
SpecTerminate ==
    TerminateInit /\ [][TerminateNext]_vars /\ WF_vars(TerminateNext)

---------------------------------------------------------------------------
(* Properties of the Config operations (SpecConfig). *)

\* The number of entries of all rows that are equal to index.
Occurrences(rows, index) ==
    Cardinality(UNION {{<<i, j>> : j \in {k \in Indices(At(rows, i)) :
                                            At(At(rows, i), k) = index}} :
                       i \in Indices(rows)})

\* C9 (as claimed): after any sequence of Config operations from the default
\* Config, every entry of every precedence row is smaller than the number
\* of registered binary operators.
RowEntriesAreOperatorIndices ==
    \A i \in Indices(binary_op_precedence) :
        \A j \in Indices(At(binary_op_precedence, i)) :
            At(At(binary_op_precedence, i), j) < Len(binary_operators)

\* C10: after any sequence of Config operations, every binary operator
\* occurs in at most one precedence row, and at most once in that row.
OperatorInAtMostOneRow ==
    \A index \in Indices(binary_operators) :
        Occurrences(binary_op_precedence, index) <= 1

\* C10 is exercised: an assign_precedence with override moved an operator
\* that already had a row, and the operator has exactly one entry now.
OperatorReassigned ==
    /\ outcome.op \in {"assign_precedence", "assign_precedence_lowest"}
    /\ outcome.err = "none"
    /\ outcome.before # NPos
    /\ get_precedence(CurrentConfig, outcome.symbol).row # outcome.before
    /\ Occurrences(binary_op_precedence,
                   find_binary_op(CurrentConfig, outcome.symbol)) = 1

---------------------------------------------------------------------------
(* Properties of parse (SpecParse). *)

RECURSIVE Shape(_)

\* The tree without its source locations: what two parses of different
\* texts can have in common.
Shape(node) ==
    CASE node.kind = "null" -> Null
      [] node.kind = "number" -> [kind |-> "number", value |-> node.value]
      [] node.kind = "variable" -> [kind |-> "variable", name |-> node.name]
      [] node.kind = "function" ->
            [kind |-> "function", name |-> node.name,
             args |-> [i \in 1 .. Len(node.args) |-> Shape(node.args[i])]]
      [] node.kind = "operator" ->
            [kind |-> "operator", symbol |-> node.symbol,
             left |-> Shape(node.left), right |-> Shape(node.right)]
      [] node.kind = "conditional" ->
            [kind |-> "conditional", condition |-> Shape(node.condition),
             true_value |-> Shape(node.true_value),
             false_value |-> Shape(node.false_value)]

\* The row and the associativity of a registered operator.
Row(symbol) == get_precedence(CurrentConfig, symbol).row

Assoc(symbol) ==
    At(binary_operators, find_binary_op(CurrentConfig, symbol)).assoc

\* The expression of the state was parsed from code.
ParsedFrom(code) == outcome.op = "parse" /\ expression.expr = code

\* The parse of the state succeeded with the tree that text parses to
\* under the same Config.
ParsesLike(text) ==
    LET other == expression_parse(Expression(text, Null), CurrentConfig)
    IN  /\ outcome.err = "none"
        /\ other.result.err = "none"
        /\ Shape(expression.ast) = Shape(other.e.ast)

\* C1: with op_hi in an earlier row than op_lo, a op_lo b op_hi c parses to
\* the tree of a op_lo (b op_hi c), and a op_hi b op_lo c to the tree of
\* (a op_hi b) op_lo c, whatever the associativities.
ParenthesizationEquivalence ==
    \A t \in OperandTriples, o1 \in ParseSymbols, o2 \in ParseSymbols :
        (/\ ParsedFrom(Flat(t, o1, o2))
         /\ Row(o1) # NPos
         /\ Row(o2) # NPos
         /\ Row(o1) # Row(o2))
        => IF Row(o2) < Row(o1)
           THEN ParsesLike(GroupRight(t, o1, o2))
           ELSE ParsesLike(GroupLeft(t, o1, o2))

\* C1 is exercised: the custom operator, in an earlier row than the
\* operator on its left, took the middle operand.
TighterOperatorOnTheRight ==
    \E t \in OperandTriples, o1 \in ParseSymbols :
        /\ ParsedFrom(Flat(t, o1, CustomSymbol))
        /\ Row(CustomSymbol) < Row(o1)
        /\ outcome.err = "none"
        /\ expression.ast.kind = "operator"
        /\ expression.ast.symbol = o1
        /\ expression.ast.right.kind = "operator"
        /\ expression.ast.right.symbol = CustomSymbol

\* C2 (as claimed): for a right-associative operator op assigned to any
\* row, row 0 included, a op b op c parses to the tree of a op (b op c).
RightAssociativeInEveryRow ==
    \A t \in OperandTriples, op \in ParseSymbols :
        (/\ ParsedFrom(Flat(t, op, op))
         /\ Row(op) # NPos
         /\ Assoc(op) = "right")
        => ParsesLike(GroupRight(t, op, op))

\* C3: for a left-associative operator op assigned to any row, row 0
\* included, a op b op c parses to the tree of (a op b) op c.
LeftAssociativeInEveryRow ==
    \A t \in OperandTriples, op \in ParseSymbols :
        (/\ ParsedFrom(Flat(t, op, op))
         /\ Row(op) # NPos
         /\ Assoc(op) = "left")
        => ParsesLike(GroupLeft(t, op, op))

\* C3 is exercised: the custom operator, left-associative in a row after
\* the first, was parsed twice in a row and grouped to the left.
LeftAssociativeGrouped ==
    \E t \in OperandTriples :
        /\ ParsedFrom(Flat(t, CustomSymbol, CustomSymbol))
        /\ Assoc(CustomSymbol) = "left"
        /\ Row(CustomSymbol) # NPos
        /\ Row(CustomSymbol) > 0
        /\ outcome.err = "none"
        /\ expression.ast.kind = "operator"
        /\ expression.ast.left.kind = "operator"
        /\ expression.ast.left.symbol = CustomSymbol
        /\ expression.ast.right.kind # "operator"

---------------------------------------------------------------------------
(* Properties of evaluate (SpecEval). *)

\* The last operation was expression.evaluate().
Evaluated == outcome.op = "evaluate"

\* What evaluating a sub-tree of the expression on its own gives, under
\* the Config and the context of the state.
Sub(node) == evaluate(node, CurrentConfig, expression.ctx)

\* The same for an operand of an Operator node: an absent operand is 0.0f.
SubOperand(node) == IF node = Null THEN Value(0, <<>>) ELSE Sub(node)

IsBinary(node) ==
    node.kind = "operator" /\ node.left # Null /\ node.right # Null

\* The lookup an Operator node makes: by its operands, and its symbol.
OperatorLookup(node) ==
    [type |-> IF node.left # Null /\ node.right # Null THEN "binary operator"
              ELSE IF node.right # Null THEN "unary prefix operator"
              ELSE "unary suffix operator",
     name |-> node.symbol]

\* The operator is registered in the Config of the state.
Registered(lookup) ==
    CASE lookup.type = "binary operator" ->
            binary_op_exists(CurrentConfig, lookup.name)
      [] lookup.type = "unary prefix operator" ->
            unary_prefix_op_exists(CurrentConfig, lookup.name)
      [] lookup.type = "unary suffix operator" ->
            unary_suffix_op_exists(CurrentConfig, lookup.name)

RECURSIVE SubNodes(_)

\* The nodes of a tree.
SubNodes(node) ==
    CASE node.kind = "null" -> {}
      [] node.kind = "number" -> {node}
      [] node.kind = "variable" -> {node}
      [] node.kind = "function" ->
            {node} \cup UNION {SubNodes(node.args[i]) : i \in DOMAIN node.args}
      [] node.kind = "operator" ->
            {node} \cup SubNodes(node.left) \cup SubNodes(node.right)
      [] node.kind = "conditional" ->
            {node} \cup SubNodes(node.condition)
                   \cup SubNodes(node.true_value)
                   \cup SubNodes(node.false_value)

\* C4: evaluating a binary Operator node evaluates the left operand, then
\* the right operand whatever the value of the left one (also for &&, ||
\* and ??), and only then invokes the operator callable: the invocations
\* are those of the left operand, then those of the right operand, then
\* the operator's own.
OperandsBeforeOperator ==
    (Evaluated /\ IsBinary(expression.ast)) =>
        LET node  == expression.ast
            left  == Sub(node.left)
            right == Sub(node.right)
            both  == left.log \o right.log
        IN  IF left.err # "none"
            THEN effects = left.log /\ outcome.err = left.err
            ELSE IF right.err # "none"
            THEN effects = both /\ outcome.err = right.err
            ELSE IF ~Registered(OperatorLookup(node))
            THEN effects = both /\ outcome.err = "unresolved_reference"
            ELSE effects =
                    Append(both, Invocation("binary operator", node.symbol,
                                            <<left.value, right.value>>))

\* C4 is exercised: add(0, 0) && add(1, 0) called add for the left operand,
\* add for the right operand although the left one is 0, and then &&.
BothOperandsOfAndEvaluated ==
    /\ Evaluated
    /\ IsBinary(expression.ast)
    /\ expression.ast.symbol = <<"&", "&">>
    /\ outcome.err = "none"
    /\ expression.value = 0
    /\ effects = <<Invocation("function", <<"a", "d", "d">>, <<0, 0>>),
                   Invocation("function", <<"a", "d", "d">>, <<1, 0>>),
                   Invocation("binary operator", <<"&", "&">>, <<0, 1>>)>>

\* C5: evaluating a Conditional node evaluates the condition once and then
\* exactly one branch, the then-branch if the condition is not 0 and the
\* else-branch otherwise: the invocations and the error are those of the
\* condition and of the selected branch, none of the other branch.
OnlySelectedBranchEvaluated ==
    (Evaluated /\ expression.ast.kind = "conditional") =>
        LET node      == expression.ast
            condition == Sub(node.condition)
            selected  == IF condition.value # 0
                         THEN Sub(node.true_value)
                         ELSE Sub(node.false_value)
        IN  IF condition.err # "none"
            THEN effects = condition.log /\ outcome.err = condition.err
            ELSE /\ effects = condition.log \o selected.log
                 /\ outcome.err = selected.err
                 /\ selected.err = "none" => expression.value = selected.value

\* C5 is exercised: a condition that is 0 selected the else-branch, a call
\* of add, and the then-branch, which raises on its own, raised nothing.
ElseBranchSelected ==
    /\ Evaluated
    /\ expression.ast.kind = "conditional"
    /\ Sub(expression.ast.true_value).err # "none"
    /\ outcome.err = "none"
    /\ expression.value = 1
    /\ effects = <<Invocation("function", <<"a", "d", "d">>, <<0, 0>>),
                   Invocation("function", <<"a", "d", "d">>, <<1, 0>>)>>

RECURSIVE LeftToRight(_, _)

\* The evaluation of args from argument i on, one after the other, up to
\* the first that raises: [err, values, log].
LeftToRight(args, i) ==
    IF i > Len(args) THEN [err |-> "none", values |-> <<>>, log |-> <<>>]
    ELSE LET arg  == Sub(args[i])
             rest == LeftToRight(args, i + 1)
         IN  IF arg.err # "none" THEN arg
             ELSE IF rest.err # "none" THEN After(arg.log, rest)
             ELSE [err |-> "none", values |-> <<arg.value>> \o rest.values,
                   log |-> arg.log \o rest.log]

\* C6 (as claimed): evaluating a Function node evaluates the arguments left
\* to right, then resolves the name, then invokes the callable: what the
\* arguments invoke and raise happens also when the name is not registered.
ArgumentsBeforeFunctionLookup ==
    (Evaluated /\ expression.ast.kind = "function") =>
        LET node == expression.ast
            args == LeftToRight(node.args, 1)
        IN  IF args.err # "none"
            THEN effects = args.log /\ outcome.err = args.err
            ELSE IF ~resolve_function(expression.ctx, node.name).found
            THEN effects = args.log /\ outcome.err = "unresolved_reference"
            ELSE effects = Append(args.log,
                               Invocation("function", node.name, args.values))

\* C6 (amended): evaluating a Function node first resolves the name, and
\* raises UnresolvedReference for the function without evaluating any
\* argument when the name is not registered; otherwise it evaluates the
\* arguments left to right and then invokes the callable.
FunctionLookupBeforeArguments ==
    (Evaluated /\ expression.ast.kind = "function") =>
        LET node == expression.ast
            args == LeftToRight(node.args, 1)
        IN  IF ~resolve_function(expression.ctx, node.name).found
            THEN /\ effects = <<>>
                 /\ outcome.err = "unresolved_reference"
                 /\ outcome.result.type = "function"
                 /\ outcome.result.name = node.name
            ELSE IF args.err # "none"
            THEN effects = args.log /\ outcome.err = args.err
            ELSE effects = Append(args.log,
                               Invocation("function", node.name, args.values))

\* C6 is exercised: a call of the unregistered g whose first argument
\* invokes a callable on its own raised for g, and invoked nothing.
UnregisteredFunctionWithArguments ==
    /\ Evaluated
    /\ expression.ast.kind = "function"
    /\ expression.ast.name = <<"g">>
    /\ Len(expression.ast.args) = 2
    /\ Sub(expression.ast.args[1]).log # <<>>
    /\ outcome.err = "unresolved_reference"
    /\ outcome.result.type = "function"
    /\ effects = <<>>

\* The operators of the tree that the Config of the state does not hold:
\* those removed since the parse.
RemovedOperators ==
    {OperatorLookup(node) :
        node \in {n \in SubNodes(expression.ast) :
                    n.kind = "operator" /\ ~Registered(OperatorLookup(n))}}

\* No invocation of effects is one of an operator that is not registered.
NoRemovedCallableInvoked ==
    \A k \in DOMAIN effects :
        [type |-> effects[k].callable, name |-> effects[k].name]
            \notin RemovedOperators

\* C7 (as claimed): if an operator used by the parsed tree was removed
\* between parse() and evaluate(), evaluate() raises UnresolvedReference,
\* returns no value, does not invoke the removed callable and leaves the
\* cached tree as parsed.
RemovedOperatorRaises ==
    (Evaluated /\ RemovedOperators # {}) =>
        /\ outcome.err = "unresolved_reference"
        /\ expression.value = outcome.before.value
        /\ NoRemovedCallableInvoked
        /\ expression.ast = outcome.before.ast

\* C7 (amended): evaluating an Operator node whose operator was removed
\* between parse() and evaluate() raises UnresolvedReference for its symbol
\* once its operands were evaluated without error, and then no value is
\* stored; in every evaluation no removed callable is invoked and the
\* cached tree is left as parsed.
RemovedOperatorRaisesWhenReached ==
    Evaluated =>
        /\ NoRemovedCallableInvoked
        /\ expression.ast = outcome.before.ast
        /\ LET node == expression.ast
           IN  (/\ node.kind = "operator"
                /\ ~Registered(OperatorLookup(node))
                /\ SubOperand(node.left).err = "none"
                /\ SubOperand(node.right).err = "none")
               => /\ outcome.err = "unresolved_reference"
                  /\ outcome.result.name = node.symbol
                  /\ expression.value = outcome.before.value
                  /\ effects = SubOperand(node.left).log
                                   \o SubOperand(node.right).log

\* C7 is exercised: add(1, 0) +++ 1 was evaluated after +++ was removed;
\* add was invoked for the left operand and UnresolvedReference was raised
\* for +++.
RemovedBinaryOperatorReached ==
    /\ Evaluated
    /\ IsBinary(expression.ast)
    /\ expression.ast.symbol = CustomSymbol
    /\ ~binary_op_exists(CurrentConfig, CustomSymbol)
    /\ outcome.err = "unresolved_reference"
    /\ outcome.result.name = CustomSymbol
    /\ effects = <<Invocation("function", <<"a", "d", "d">>, <<1, 0>>)>>

\* The lookup a node makes and that misses in the state: of a variable, of
\* a function, of an operator.
Misses(node) ==
    CASE node.kind = "variable" ->
            ~resolve_variable(expression.ctx, node.name).found
      [] node.kind = "function" ->
            ~resolve_function(expression.ctx, node.name).found
      [] node.kind = "operator" -> ~Registered(OperatorLookup(node))
      [] OTHER -> FALSE

Lookup(node) ==
    CASE node.kind = "variable" -> [type |-> "variable", name |-> node.name]
      [] node.kind = "function" -> [type |-> "function", name |-> node.name]
      [] node.kind = "operator" -> OperatorLookup(node)

\* C8 (as claimed): an UnresolvedReference raised by evaluation carries the
\* symbol and the kind of a lookup of the tree that missed: "variable",
\* "function", "binary operator" with both operands, "unary prefix
\* operator" with the right operand only, "unary suffix operator" with the
\* left operand only.
KindMatchesLookup ==
    (Evaluated /\ outcome.err = "unresolved_reference") =>
        \E node \in SubNodes(expression.ast) :
            /\ Misses(node)
            /\ Lookup(node) = [type |-> outcome.result.type,
                               name |-> outcome.result.name]

---------------------------------------------------------------------------
(* Properties of the operator groups (SpecGroups). *)

\* The symbols of a group of a Config, in order.
GroupOf(cfg, group) ==
    CASE group = "prefix" -> cfg.unary_prefix_operators
      [] group = "suffix" -> cfg.unary_suffix_operators
      [] group = "binary" ->
            [k \in DOMAIN cfg.binary_operators |->
                cfg.binary_operators[k].symbol]

Groups == {"prefix", "suffix", "binary"}

NoDuplicates(s) == \A i, j \in DOMAIN s : s[i] = s[j] => i = j

\* C11: after any sequence of add_* and remove_* operations no group holds
\* a symbol twice; an add_* of a symbol its group already holds fails with
\* LogicError and leaves all groups as they were; an add_* of a symbol its
\* group does not hold succeeds and appends the symbol to that group only,
\* whether or not another group holds the symbol.
SymbolsUniquePerGroup ==
    /\ \A group \in Groups : NoDuplicates(GroupOf(CurrentConfig, group))
    /\ (outcome.op = "add" /\ Contains(GroupOf(outcome.before, outcome.group),
                                       outcome.symbol)) =>
            /\ outcome.err = "logic_error"
            /\ CurrentConfig = outcome.before
    /\ (outcome.op = "add" /\ outcome.err = "none") =>
            /\ ~Contains(GroupOf(outcome.before, outcome.group),
                         outcome.symbol)
            /\ \A group \in Groups :
                GroupOf(CurrentConfig, group) =
                    IF group = outcome.group
                    THEN Append(GroupOf(outcome.before, group), outcome.symbol)
                    ELSE GroupOf(outcome.before, group)

\* C11 witness: an add_unary_prefix_op of a symbol that was removed and
\* added again is rejected, while the suffix group holds the same symbol.
DuplicateAddRejected ==
    /\ outcome.op = "add"
    /\ outcome.group = "prefix"
    /\ outcome.err = "logic_error"
    /\ outcome.symbol = <<"!">>
    /\ unary_prefix_operators[Len(unary_prefix_operators)] = <<"!">>
    /\ Contains(unary_suffix_operators, <<"!">>)

---------------------------------------------------------------------------
(* Properties of precedence assignment (SpecAssign). *)

\* The reference of a successful assign_precedence on rows for the operator
\* index: the operator is taken out of every row, a row that this empties
\* is dropped and p counts one less for each dropped row before it; then
\* the operator becomes a new row at p, or joins the row at p.
AssignReference(rows, index, p, insert_row) ==
    LET Other(x) == x # index
        stripped == [k \in DOMAIN rows |-> SelectSeq(rows[k], Other)]
        dropped == {k \in DOMAIN rows : rows[k] # <<>> /\ stripped[k] = <<>>}
        NotEmpty(row) == row # <<>>
        kept == SelectSeq(stripped, NotEmpty)
        q == p - Cardinality({k \in dropped : k - 1 < p})
    IN  IF insert_row
        THEN SubSeq(kept, 1, q) \o << <<index>> >>
                 \o SubSeq(kept, q + 1, Len(kept))
        ELSE SubSeq(kept, 1, q) \o << Append(kept[q + 1], index) >>
                 \o SubSeq(kept, q + 2, Len(kept))

\* The row entries of rows other than index.
OtherEntries(rows, index) ==
    UNION {{rows[k][j] : j \in DOMAIN rows[k]} : k \in DOMAIN rows} \ {index}

\* The rows as the sets of their entries other than index, in row order,
\* without the rows that hold no other entry: which operators share a row,
\* and the order of these rows.
RowMates(rows, index) ==
    LET NotEmpty(set) == set # {}
    IN  SelectSeq([k \in DOMAIN rows |->
                     {rows[k][j] : j \in DOMAIN rows[k]} \ {index}],
                  NotEmpty)

\* A call of assign_precedence has just returned normally.
Assigned == outcome.op = "assign_precedence" /\ outcome.err = "none"

\* C12: a successful assign_precedence(sym, p, insert_row, override) leaves
\* the rows of the reference: sym removed from its row (the row deleted if
\* that empties it, p lowered by one if the deleted row was before p), an
\* empty row inserted at p if insert_row, sym appended to row p.  Then sym
\* is in exactly one row, with insert_row it is alone in its row, and all
\* other operators keep their relative row order and their row mates.
AssignPrecedenceMatchesReference ==
    Assigned =>
        LET before == outcome.before.binary_op_precedence
            index == find_binary_op(outcome.before, outcome.symbol)
            others == OtherEntries(before, index)
            row == FirstRowWith(binary_op_precedence, index)
        IN  /\ binary_op_precedence =
                    AssignReference(before, index, outcome.precedence,
                                    outcome.insert_row)
            /\ Occurrences(binary_op_precedence, index) = 1
            /\ outcome.insert_row =>
                    At(binary_op_precedence, row) = <<index>>
            /\ OtherEntries(binary_op_precedence, index) = others
            /\ RowMates(binary_op_precedence, index) = RowMates(before, index)

\* C12 witness: an operator that was alone in a row before p is assigned,
\* with override and without a new row, to row p: its row is deleted and it
\* joins the row that was at p.
AssignedAfterOwnRowDeleted ==
    /\ Assigned
    /\ ~outcome.insert_row
    /\ outcome.override
    /\ get_precedence(outcome.before, outcome.symbol).row < outcome.precedence
    /\ Len(binary_op_precedence) < Len(outcome.before.binary_op_precedence)
    /\ get_precedence(CurrentConfig, outcome.symbol).row =
            outcome.precedence - 1

\* C13 (as claimed): for a registered operator and a call that may proceed
\* (override is true or the operator has no row), assign_precedence fails
\* with OutOfRange exactly when p is greater than the number of rows at the
\* time of the call (insert_row) or not smaller than it (no insert_row),
\* and succeeds for every other p.
OutOfRangeExactlyBeyondRows ==
    (/\ outcome.op = "assign_precedence"
     /\ binary_op_exists(outcome.before, outcome.symbol)
     /\ \/ outcome.override
        \/ get_precedence(outcome.before, outcome.symbol).row = NPos) =>
        LET size == Len(outcome.before.binary_op_precedence)
            beyond == IF outcome.insert_row
                      THEN outcome.precedence > size
                      ELSE outcome.precedence >= size
        IN  outcome.err = IF beyond THEN "out_of_range" ELSE "none"

\* C14 (as claimed): after any sequence of Config operations, a binary
\* operator that add_binary_op has registered and that was given no row,
\* or that unassign_precedence has unassigned, has no row according to
\* get_precedence, and parsing `1 op 2` fails with UnexpectedToken.
OperatorWithoutRowInvisible ==
    (/\ outcome.op \in {"add_binary_op", "unassign_precedence"}
     /\ outcome.err = "none") =>
        /\ get_precedence(CurrentConfig, outcome.symbol).row = NPos
        /\ parse(tokenize(Binary(<<"1">>, outcome.symbol, <<"2">>)).tokens,
                 CurrentConfig).err = "unexpected_token"

---------------------------------------------------------------------------
(* Properties of the tokenizer (SpecTokenize). *)

\* The characters of the body of a number literal as the grammar of the
\* claim has it: digits, the decimal point and the two separators.
ClaimedNumberBody == number_start \cup {"."} \cup number_separator

\* Whether a text is ill-formed from index on by the grammar of the claim:
\* it holds a character of no class, or a number literal (a digit and the
\* longest run of body characters after it) with more than one decimal point
\* or with a separator at its end.
RECURSIVE ClaimedIllFormed(_, _)
ClaimedIllFormed(text, index) ==
    IF index >= Len(text) THEN FALSE
    ELSE LET c == At(text, index)
         IN  IF c \in identifier_start
             THEN ClaimedIllFormed(text,
                      RunEnd(text, index, identifier_continue))
             ELSE IF c \in number_start
             THEN LET end == RunEnd(text, index, ClaimedNumberBody)
                      literal == Substr(text, index, end - index)
                  IN  \/ Cardinality({k \in DOMAIN literal :
                                         literal[k] = "."}) > 1
                      \/ literal[Len(literal)] \in number_separator
                      \/ ClaimedIllFormed(text, end)
             ELSE IF c \in operator_chars
             THEN ClaimedIllFormed(text, RunEnd(text, index, operator_chars))
             ELSE IF c \in punctuation_chars \cup space_chars
             THEN ClaimedIllFormed(text, index + 1)
             ELSE TRUE

\* A text that is one number literal with a separator after its first
\* digit: digits and separators only, a digit first and last.
SeparatedNumber(text) ==
    /\ \A k \in DOMAIN text : text[k] \in number_start \cup number_separator
    /\ \E k \in DOMAIN text : text[k] \in number_separator
    /\ text[1] \in number_start
    /\ text[Len(text)] \in number_start

Tokenized == outcome.op = "tokenize"

\* C15 (as claimed): tokenize raises TokenizerError exactly for a text with
\* an illegal character, a number literal with more than one decimal point
\* or a number literal that ends in a separator, and succeeds on every
\* other text; a number literal with the separators ' and _ after its first
\* digit yields one Number token whose value is the literal without the
\* separators.
TokenizerErrorExactlyWhenIllFormed ==
    Tokenized =>
        /\ (outcome.err = "tokenizer_error") <=>
                ClaimedIllFormed(expression.expr, 0)
        /\ SeparatedNumber(expression.expr) =>
                /\ outcome.err = "none"
                /\ expression.tokens =
                        <<Token("number", WithoutSeparators(expression.expr),
                                Location(0, Len(expression.expr)))>>

\* The symbols the parser compares a Symbol token with: the operators of
\* the three groups of the Config, and the two symbols of the conditional.
ParserSymbols ==
    {unary_prefix_operators[k] : k \in DOMAIN unary_prefix_operators}
        \cup {unary_suffix_operators[k] : k \in DOMAIN unary_suffix_operators}
        \cup {binary_operators[k].symbol : k \in DOMAIN binary_operators}
        \cup {<<"?">>, <<":">>}

\* The Symbol tokens among tokens.
SymbolTokens(tokens) ==
    {tokens[k] : k \in {j \in DOMAIN tokens : tokens[j].type = "symbol"}}

\* The text positions a token covers.
Covered(token) ==
    token.location.begin .. (token.location.begin + token.location.length - 1)

RECURSIVE OperatorMarks(_)

\* The symbol and the location of every Operator node of a tree.
OperatorMarks(node) ==
    CASE node.kind = "null" -> {}
      [] node.kind = "number" -> {}
      [] node.kind = "variable" -> {}
      [] node.kind = "function" ->
            UNION {OperatorMarks(node.args[i]) : i \in DOMAIN node.args}
      [] node.kind = "operator" ->
            {[symbol |-> node.symbol, location |-> node.location]}
                \cup OperatorMarks(node.left) \cup OperatorMarks(node.right)
      [] node.kind = "conditional" ->
            OperatorMarks(node.condition)
                \cup OperatorMarks(node.true_value)
                \cup OperatorMarks(node.false_value)

\* C16: every Symbol token that tokenize emits is a maximal run of operator
\* characters of the text (no operator character is next to it, and every
\* operator character of a tokenized text is in exactly one Symbol token);
\* the parser takes a Symbol token whole: a parse succeeds only if every
\* Symbol token equals a configured symbol, each Operator node of the tree
\* carries the value and location of one Symbol token, and `1+-2` fails
\* with UnexpectedToken under the default Config.
SymbolTokensAreMaximalRuns ==
    LET text == expression.expr
    IN  /\ Tokenized =>
            \A token \in SymbolTokens(outcome.result.tokens) :
                LET begin == token.location.begin
                    end == begin + token.location.length
                IN  /\ begin < end
                    /\ token.value = Substr(text, begin, end - begin)
                    /\ \A i \in Covered(token) : At(text, i) \in operator_chars
                    /\ begin > 0 => At(text, begin - 1) \notin operator_chars
                    /\ end < Len(text) => At(text, end) \notin operator_chars
        /\ (Tokenized /\ outcome.err = "none") =>
            \A i \in Indices(text) :
                At(text, i) \in operator_chars =>
                    Cardinality({token \in SymbolTokens(expression.tokens) :
                                    i \in Covered(token)}) = 1
        /\ (outcome.op = "parse" /\ outcome.err = "none") =>
            /\ \A token \in SymbolTokens(expression.tokens) :
                    token.value \in ParserSymbols
            /\ \A mark \in OperatorMarks(expression.ast) :
                    \E token \in SymbolTokens(expression.tokens) :
                        /\ token.value = mark.symbol
                        /\ token.location = mark.location
        /\ (outcome.op = "parse" /\ text = <<"1", "+", "-", "2">>) =>
            outcome.err = "unexpected_token"

\* C16 witness: `1+-2` was tokenized to the three tokens 1, +- and 2, and
\* its parse failed with UnexpectedToken at the token +-.
PlusMinusNotSplit ==
    /\ outcome.op = "parse"
    /\ expression.expr = <<"1", "+", "-", "2">>
    /\ Len(expression.tokens) = 3
    /\ expression.tokens[2] = Token("symbol", <<"+", "-">>, Location(1, 2))
    /\ outcome.err = "unexpected_token"
    /\ outcome.result.token = expression.tokens[2]

---------------------------------------------------------------------------
(* Properties of the context lookup (SpecContext). *)

RECURSIVE PreOrder(_, _, _), PreOrderOfAll(_, _, _)

\* The objects reachable from ptr in depth-first pre-order: ptr, then the
\* chain of each parent in the order the parents were added.  An object
\* is not entered again below itself.
PreOrder(heap, ptr, entered) ==
    IF ptr \in entered THEN <<>>
    ELSE <<ptr>> \o PreOrderOfAll(heap, heap[ptr].parents,
                                  entered \cup {ptr})

PreOrderOfAll(heap, ptrs, entered) ==
    IF ptrs = <<>> THEN <<>>
    ELSE PreOrder(heap, Head(ptrs), entered)
            \o PreOrderOfAll(heap, Tail(ptrs), entered)

\* The objects of order that bind name, in that order.
Binders(heap, order, name, field) ==
    LET Binds(ptr) == name \in DOMAIN heap[ptr][field]
    IN  SelectSeq(order, Binds)

\* Some object reachable from ptr is its own ancestor.
CyclicFrom(heap, ptr) ==
    \E c \in {PreOrder(heap, ptr, {})[k] :
                 k \in DOMAIN PreOrder(heap, ptr, {})} :
        \E k \in DOMAIN PreOrderOfAll(heap, heap[c].parents, {}) :
            PreOrderOfAll(heap, heap[c].parents, {})[k] = c

ResolveCalled == outcome.op \in {"resolve_variable", "resolve_function"}

\* C17: resolve_variable(name) and resolve_function(name) return the
\* binding of the first context that binds the name in depth-first
\* pre-order (the context itself, then the whole chain of each parent in
\* the order the parents were added), and nothing exactly when no reachable
\* context binds the name; a call fails to return only on a context from
\* which a cycle of parents is reachable.
ResolveReturnsFirstInPreOrder ==
    ResolveCalled =>
        LET binders == Binders(contexts, PreOrder(contexts, outcome.ctx, {}),
                               outcome.name, outcome.field)
        IN  IF outcome.err = "no_return"
            THEN CyclicFrom(contexts, outcome.ctx)
            ELSE IF binders = <<>>
            THEN outcome.result = Nullopt
            ELSE outcome.result
                    = Resolved(contexts[Head(binders)][outcome.field]
                                       [outcome.name])

\* C17 witness: the resolved context has two parents; the second binds
\* the name itself and the first does not, and the call returns the binding
\* of an ancestor of the first.
EarliestParentChainWins ==
    /\ outcome.op = "resolve_variable"
    /\ Len(contexts[outcome.ctx].parents) >= 2
    /\ LET first == contexts[outcome.ctx].parents[1]
           second == contexts[outcome.ctx].parents[2]
       IN  /\ outcome.name \notin DOMAIN contexts[outcome.ctx].variables
           /\ outcome.name \notin DOMAIN contexts[first].variables
           /\ outcome.name \in DOMAIN contexts[second].variables
           /\ outcome.result.found
           /\ outcome.result.value \notin {outcome.ctx, first, second}
           /\ outcome.result.value
                  = contexts[outcome.result.value].variables[outcome.name]

---------------------------------------------------------------------------
(* Properties of the caches of the expression (SpecValue). *)

\* What tokenizing, parsing and evaluating the code the call was made on
\* gives under the Config and the context of the call.
FreshTokens == tokenize(outcome.before.expr)

FreshTree == parse(FreshTokens.tokens, CurrentConfig)

FreshValue ==
    evaluate(FreshTree.node, CurrentConfig,
             IF outcome.before.ctx = Null THEN EmptyContext
             ELSE outcome.before.ctx)

\* The code, the Config or the context changed since the tree and the
\* value were cached: a fresh parse and evaluation fail or give another
\* value than the cached one.
CacheIsStale ==
    \/ FreshTokens.err # "none"
    \/ FreshTree.err # "none"
    \/ FreshTree.node # outcome.before.ast
    \/ FreshValue.err # "none"
    \/ FreshValue.value # outcome.before.value

GetValueCalled == outcome.op = "get_value"

\* C18: get_value() on an expression with no cached tree runs parse() and
\* then evaluate(), once each, and returns the result (an error of parse()
\* or evaluate() is raised, and evaluate() is not run after an error of
\* parse()); with a cached tree it runs neither, changes nothing and returns
\* the cached value, whatever the code, the Config and the context are now.
\* Apart from that, only parse() and evaluate() change tree or value.
GetValueUsesTheCache ==
    /\ GetValueCalled /\ outcome.before.ast # Null =>
          /\ outcome.err = "none"
          /\ outcome.result.value = outcome.before.value
          /\ expression = outcome.before
          /\ effects = <<>>
    /\ GetValueCalled /\ outcome.before.ast = Null =>
          IF FreshTokens.err # "none"
          THEN /\ outcome.result = FreshTokens
               /\ expression = outcome.before
               /\ effects = <<>>
          ELSE IF FreshTree.err # "none"
          THEN /\ outcome.result = FreshTree
               /\ expression.ast = Null
               /\ expression.value = outcome.before.value
               /\ effects = <<>>
          ELSE /\ expression.ast = FreshTree.node
               /\ effects = FreshValue.log
               /\ IF FreshValue.err # "none"
                  THEN /\ outcome.result = FreshValue
                       /\ expression.value = outcome.before.value
                  ELSE /\ outcome.err = "none"
                       /\ outcome.result.value = FreshValue.value
                       /\ expression.value = FreshValue.value
    /\ outcome.op \in {"assign_code", "set_variable", "add_unary_prefix_op",
                       "remove_unary_prefix_op"} =>
          /\ expression.ast = outcome.before.ast
          /\ expression.value = outcome.before.value
          /\ expression.tokens = outcome.before.tokens

\* C18 witness: get_value() on a cached tree returns the cached value
\* although a fresh parse and evaluation would fail or give another value.
StaleValueReturned ==
    /\ GetValueCalled
    /\ outcome.before.ast # Null
    /\ CacheIsStale
    /\ outcome.err = "none"
    /\ outcome.result.value = outcome.before.value

---------------------------------------------------------------------------
(* Properties of the conditional (SpecTernary). *)

\* The tree of the state is a conditional.
ConditionalParsed ==
    outcome.err = "none" /\ expression.ast.kind = "conditional"

\* node is the binary Operator node of op.
OperatorOf(node, op) ==
    node.kind = "operator" /\ node.symbol = op /\ node.right # Null

---------------------------------------------------------------------------
(* Properties of the errors of parse (SpecSyntax). *)

\* The tokens parse was called with.
Stream == expression.tokens

\* Every token of the stream is in the tree: it is the token of a node, or
\* punctuation, or the `:` of a conditional.
EveryTokenInTree ==
    \A i \in DOMAIN Stream :
        \/ Stream[i].type = "punctuation"
        \/ Stream[i].value = <<":">>
        \/ \E node \in SubNodes(expression.ast) :
              node.location = Stream[i].location

\* What a stream may lack at its end: an operand, a `)` or a `:`.
Closers ==
    {Token("number", <<"1">>, Location(0, 1)),
     Token("punctuation", <<")">>, Location(0, 1)),
     Token("symbol", <<":">>, Location(0, 1))}

Completions == UNION {[1 .. n -> Closers] : n \in 1 .. 3}

\* The stream ends where an operand, a `)` or a `:` is required: it parses
\* once such tokens are appended.
EndsEarly ==
    \E more \in Completions :
        parse(Stream \o more, CurrentConfig).err = "none"

\* The top-level expression, and whether tokens remain after it.
TopLevel == parse_all(Stream, CurrentConfig, 0)

Surplus ==
    Stream # <<>> /\ TopLevel.err = "none" /\ TopLevel.pos < Len(Stream)

UnexpectedTokenAt(token) ==
    outcome.err = "unexpected_token" /\ outcome.result.token = token

\* C20 (as claimed): parse either returns a tree after consuming every
\* token or raises UnexpectedToken; when the stream ends where an operand,
\* a `)` or a `:` is required the error points at the last token, and when
\* tokens remain after the top-level expression it points at the first of
\* them.
ParseReturnsTreeOrUnexpectedToken ==
    outcome.op = "parse" =>
        /\ outcome.err \in {"none", "unexpected_token"}
        /\ outcome.err = "none" => EveryTokenInTree
        /\ outcome.err # "none" /\ EndsEarly =>
              UnexpectedTokenAt(Stream[Len(Stream)])
        /\ Surplus => UnexpectedTokenAt(At(Stream, TopLevel.pos))

---------------------------------------------------------------------------
(* Properties of blank codes (SpecBlank). *)

\* The code is empty or holds only whitespace.
Blank(text) == \A i \in DOMAIN text : text[i] \in space_chars

\* C21: for a code that is empty or holds only whitespace, under every
\* Config, tokenize raises nothing and yields no tokens, parse raises
\* nothing and returns a Number node with value 0, and evaluate raises
\* nothing, invokes no callable and stores and returns the value 0.
BlankCodeIsZero ==
    Blank(expression.expr) =>
        /\ outcome.op = "tokenize" =>
            /\ outcome.err = "none"
            /\ outcome.result.tokens = <<>>
            /\ expression.tokens = <<>>
        /\ outcome.op = "parse" =>
            /\ outcome.err = "none"
            /\ expression.tokens = <<>>
            /\ expression.ast.kind = "number"
            /\ expression.ast.value = 0
        /\ outcome.op = "evaluate" =>
            /\ outcome.err = "none"
            /\ outcome.result.value = 0
            /\ expression.value = 0
            /\ effects = <<>>

\* C21 witness: a code of whitespace only was evaluated to 0 under a Config
\* that is not the default one.
BlankCodeEvaluated ==
    /\ outcome.op = "evaluate"
    /\ expression.expr = <<" ", "\t", "\n">>
    /\ CurrentConfig # DefaultConfig
    /\ CurrentConfig # EmptyConfig
    /\ steps > 0
    /\ expression.ast = number_ast(0, Location(0, 0))
    /\ expression.value = 0

---------------------------------------------------------------------------
(* Properties of symbols in several groups (SpecPosition). *)

\* The last call parsed this code.
PositionParsed(code) == outcome.op = "parse" /\ expression.expr = code

\* The node is the operator sym over these operands (Null: none).
IsOperator(node, sym, left, right) ==
    /\ node.kind = "operator"
    /\ node.symbol = sym
    /\ node.left.kind = left
    /\ node.right.kind = right

\* sym is a binary operator with a precedence row.
BinaryWithRow(sym) == get_precedence(CurrentConfig, sym).row # NPos

\* `sym a` parses to the prefix operator sym over a when sym is a prefix
\* operator.
PrefixByPosition(sym) ==
    (PositionParsed(PrefixCode(sym))
     /\ unary_prefix_op_exists(CurrentConfig, sym)) =>
        /\ outcome.err = "none"
        /\ IsOperator(expression.ast, sym, "null", "number")

\* `a sym` parses to the suffix operator sym over a when sym is a suffix
\* operator.
SuffixByPosition(sym) ==
    (PositionParsed(SuffixCode(sym))
     /\ unary_suffix_op_exists(CurrentConfig, sym)) =>
        /\ outcome.err = "none"
        /\ IsOperator(expression.ast, sym, "number", "null")

\* `a sym b` parses to the binary operator sym over a and b when sym is a
\* binary operator with a row.
BinaryByPosition(sym) ==
    (PositionParsed(InfixCode(sym)) /\ BinaryWithRow(sym)) =>
        /\ outcome.err = "none"
        /\ IsOperator(expression.ast, sym, "number", "number")

\* `a sym b` parses as it does under the Config without the suffix
\* operator sym, when sym is a binary operator with a row.
SuffixLeavesBinaryParse(sym) ==
    (PositionParsed(InfixCode(sym)) /\ BinaryWithRow(sym)) =>
        outcome.result =
            expression_parse(Expression(InfixCode(sym), Null),
                remove_unary_suffix_op(CurrentConfig, sym).cfg).result

\* C22: the parser chooses the group of a symbol by its position alone:
\* before an operand it is the prefix operator, between two operands the
\* binary operator, after an operand that no operand follows the suffix
\* operator; and whether sym is a suffix operator does not change how
\* `a sym b` parses when sym is a binary operator with a row.
GroupChosenByPosition ==
    \A sym \in GroupSymbols :
        /\ PrefixByPosition(sym)
        /\ SuffixByPosition(sym)
        /\ BinaryByPosition(sym)
        /\ SuffixLeavesBinaryParse(sym)

---------------------------------------------------------------------------
(* Properties of remove_binary_op on the other operators (SpecGroups). *)

\* The symbols of the registered binary operators.
BinarySymbols(cfg) ==
    {cfg.binary_operators[k].symbol : k \in DOMAIN cfg.binary_operators}

\* The symbols for which get_precedence returns the row it returns for t.
SharingRow(cfg, t) ==
    {u \in BinarySymbols(cfg) :
        get_precedence(cfg, u).row = get_precedence(cfg, t).row}

\* The last call was a remove_binary_op that returned.
BinaryOpRemoved ==
    /\ outcome.op = "remove"
    /\ outcome.group = "binary"
    /\ outcome.err = "none"

\* C23: after remove_binary_op(s), for every other registered symbol t,
\* get_precedence(t) and the set of symbols that share a row with t are
\* what they were before the call (but for s itself), whether or not s had
\* a row.
RemoveBinaryOpLeavesOthers ==
    BinaryOpRemoved =>
        \A t \in BinarySymbols(CurrentConfig) :
            /\ get_precedence(CurrentConfig, t).row =
                   get_precedence(outcome.before, t).row
            /\ SharingRow(CurrentConfig, t) =
                   SharingRow(outcome.before, t) \ {outcome.symbol}

\* A call of assign_precedence has just thrown.
AssignFailed == outcome.op = "assign_precedence" /\ outcome.err # "none"

\* C24: a failing assign_precedence call (InvalidArgument, LogicError or
\* OutOfRange) leaves the Config as it was before the call: the operator
\* keeps the row it had and no row is added or deleted.
FailedAssignLeavesConfig ==
    AssignFailed =>
        /\ outcome.err \in {"invalid_argument", "logic_error", "out_of_range"}
        /\ CurrentConfig = outcome.before

---------------------------------------------------------------------------
(* Properties of errors and the caches of the expression (SpecValue). *)

\* The last call was a get_value() whose parse succeeded and whose
\* evaluation raised.
GetValueFailedInEvaluation ==
    /\ outcome.op = "get_value"
    /\ outcome.err # "none"
    /\ outcome.before.ast = Null
    /\ expression.ast # Null

\* C25: when a get_value() call has failed with an evaluation error after
\* its parse succeeded, a following get_value() with nothing changed in
\* between fails with that error again: it does not return the initial 0.0
\* or another value that no evaluation of the cached tree produced.
GetValueFailsAgain ==
    [][(GetValueFailedInEvaluation /\ outcome'.op = "get_value") =>
            /\ outcome'.err = outcome.err
            /\ outcome'.result = outcome.result]_vars

---------------------------------------------------------------------------
(* Properties of the rows under all Config operations (SpecAssign). *)

\* The operator of the last call was alone in its row when the call was
\* made.
WasAloneInRow ==
    LET cfg == outcome.before
        index == find_binary_op(cfg, outcome.symbol)
        row == FirstRowWith(cfg.binary_op_precedence, index)
    IN  /\ index # NPos
        /\ row # NPos
        /\ At(cfg.binary_op_precedence, row) = <<index>>

\* C26: after every sequence of add_binary_op, remove_binary_op,
\* assign_precedence and unassign_precedence calls from the default
\* Config, no row of binary_op_precedence is empty; an unassign_precedence
\* or an overriding assign_precedence on an operator alone in its row
\* deletes that row, and a successful assign_precedence with insert_row
\* leaves one row more (less the deleted one) that holds the operator
\* alone.
NoEmptyRow ==
    /\ \A i \in Indices(binary_op_precedence) :
            At(binary_op_precedence, i) # <<>>
    /\ (outcome.op = "unassign_precedence" /\ outcome.err = "none"
        /\ WasAloneInRow) =>
            Len(binary_op_precedence) =
                Len(outcome.before.binary_op_precedence) - 1
    /\ (Assigned /\ outcome.insert_row) =>
            /\ Len(binary_op_precedence) =
                   Len(outcome.before.binary_op_precedence) + 1
                       - (IF WasAloneInRow THEN 1 ELSE 0)
            /\ \E i \in Indices(binary_op_precedence) :
                   At(binary_op_precedence, i) =
                       <<find_binary_op(CurrentConfig, outcome.symbol)>>
    /\ (Assigned /\ ~outcome.insert_row /\ WasAloneInRow) =>
            Len(binary_op_precedence) =
                Len(outcome.before.binary_op_precedence) - 1

\* C26 witness: the third call, an overriding assign_precedence with
\* insert_row, moved `^` out of a row it was alone in: that row was
\* deleted and the inserted row holds `^`, which leaves the 13 rows of the
\* default Config.
EmptiedRowsDeleted ==
    /\ Assigned
    /\ outcome.symbol = <<"^">>
    /\ outcome.insert_row
    /\ outcome.override
    /\ WasAloneInRow
    /\ steps = 3
    /\ Len(binary_op_precedence) = 13
    /\ get_precedence(CurrentConfig, <<"^">>).row = outcome.precedence

\* The Configs of SpecValue: the default one, without and with the prefix
\* operator `++`.
ValueConfigs ==
    {DefaultConfig, add_unary_prefix_op(DefaultConfig, CustomPrefix).cfg}

\* The cached tokens are those of code and the cached tree is a parse of
\* them.
CachedFrom(code) ==
    /\ tokenize(code).err = "none"
    /\ expression.tokens = tokenize(code).tokens
    /\ \E cfg \in ValueConfigs :
          \E parsed \in {parse(expression.tokens, cfg)} :
              /\ parsed.err = "none"
              /\ parsed.node = expression.ast

\* The last call was a parse() that raised.
ParseFailed == outcome.op = "parse" /\ outcome.err # "none"

\* C27: after every sequence of parse() calls, successful or failed, with
\* changes of the code between them, the cached tokens and the cached tree
\* come from one code, and a failing parse() leaves tokens and tree as they
\* were before the call.
TokensAndTreeFromOneCode ==
    /\ expression.ast # Null => \E code \in ValueCodes : CachedFrom(code)
    /\ ParseFailed =>
          /\ expression.tokens = outcome.before.tokens
          /\ expression.ast = outcome.before.ast

---------------------------------------------------------------------------
(* Properties of the wrapping modulo operator (SpecModulo). *)

\* The operand is an integer.
IsInteger(f) == ~f.fraction

\* C28: for every pair of operands the `%%` operator either raises the
\* by-zero code error or returns a value, and never takes an integer
\* remainder by a zero divisor (the divisor is y truncated to an integer,
\* which is zero also for 0 < |y| < 1); for an integer x and a positive
\* integer y the result is the Euclidean remainder, in [0, y).
WrappingModuloNeverDividesByZero ==
    outcome.op = "%%" =>
        /\ outcome.err \in {"none", "code_error"}
        /\ ~outcome.result.undefined
        /\ (IsInteger(outcome.x) /\ IsInteger(outcome.y)
            /\ ToInt(outcome.y) > 0) =>
                /\ outcome.err = "none"
                /\ outcome.result.value \in 0 .. (ToInt(outcome.y) - 1)
                /\ outcome.result.value = ToInt(outcome.x) % ToInt(outcome.y)

\* The last call was an evaluate() on a parsed expression that raised.
EvaluateRaised ==
    /\ outcome.op = "evaluate"
    /\ outcome.err \notin {"none", "null_dereference"}

\* C29: when evaluate() raises, the cached value, tokens and tree of the
\* expression are what they were before the call (the value of the last
\* successful evaluate(), or the initial 0.0), and the caller receives the
\* error that the evaluation of the tree raised.
FailedEvaluateLeavesCaches ==
    EvaluateRaised =>
        /\ expression.value = outcome.before.value
        /\ expression.tokens = outcome.before.tokens
        /\ expression.ast = outcome.before.ast
        /\ expression.expr = outcome.before.expr
        /\ \E evaluated \in {evaluate(outcome.before.ast, CurrentConfig,
                                      expression.ctx)} :
              /\ evaluated.err # "none"
              /\ outcome.result = evaluated

\* C29 witness: evaluate() raised on an expression whose cached value, 3,
\* came from an earlier successful evaluate(), and the value is still 3.
FailedEvaluateKeptValue ==
    /\ EvaluateRaised
    /\ outcome.err = "unresolved_reference"
    /\ outcome.before.value = 3
    /\ expression.value = 3


---------------------------------------------------------------------------
(* Termination of tokenize and parse, under SpecTerminate.                 *)

\* The place of a parse function in the descent of the grammar: parse_all
\* above parse_condition, that above the rows from the last to the first,
\* those above parse_primary, and that above the functions it chooses from.
Level(frame) ==
    LET size == Len(binary_op_precedence)
    IN  CASE frame.rule = "parse_all" -> size + 4
          [] frame.rule = "parse_condition" -> size + 3
          [] frame.rule = "parse_binary_op" -> frame.prec + 3
          [] frame.rule = "parse_primary" -> 2
          [] frame.rule = "parse_identifier" -> 1
          [] OTHER -> 0

\* An iteration of the tokenizer that does not raise leaves a greater index.
TokenizerAdvances ==
    (outcome.op = "tokenize" /\ outcome'.op = "tokenize")
        => outcome'.index > outcome.index

\* A nested call of the parser starts at a later token, or at the same
\* token in a function strictly lower in the descent.
ParserDescends ==
    (outcome.op = "call" /\ outcome'.op = "call")
        => \/ outcome'.frame.pos > outcome.frame.pos
           \/ /\ outcome'.frame.pos = outcome.frame.pos
              /\ Level(outcome'.frame) < Level(outcome.frame)

\* The tokenizer has raised, parse has returned for no tokens, or the
\* running call makes no further call.
Finished ==
    \/ outcome.op \in {"raised", "returned"}
    \/ /\ outcome.op = "call"
       /\ \A call \in outcome.calls : call.caller # outcome.frame

\* C30: tokenize followed by parse terminates on every text under every
\* Config with valid rows: every iteration of the tokenizer advances the
\* index or raises, every nested call of the parser starts at a later token
\* or descends to a strictly lower level, and every behaviour ends.
TokenizeAndParseTerminate ==
    /\ [][TokenizerAdvances /\ ParserDescends]_vars
    /\ <>[]Finished

\* The number inside the parentheses of the second argument of
\* `a(1,(1),a())` is reached: twelve iterations of the tokenizer, and
\* calls nested through the argument list and the parentheses.
NestedCallReached ==
    /\ expression.expr =
           <<"a", "(", "1", ",", "(", "1", ")", ",", "a", "(", ")", ")">>
    /\ Len(expression.tokens) = 12
    /\ binary_op_precedence # <<>>
    /\ outcome.op = "call"
    /\ outcome.frame = Frame("parse_number", 5, 0)

===========================================================================
